---- MODULE Spec2Model ----
(***************************************************************************)
(* CareerLiftAI: the resume-analysis path (browser retry wrapper, the      *)
(* POST /api/analyze handler, the Gemini client), the learning-resources   *)
(* path (POST /api/courses/external), the resume upload (POST              *)
(* /api/upload-resume), the in-memory course catalog (/api/courses) and    *)
(* the learning-resources effect of the recommendations page.              *)
(*                                                                         *)
(* JavaScript values are records with a type tag t; strings carry their    *)
(* UTF-16 code units as a sequence of one-character strings, objects carry *)
(* a function from property names to values.                               *)
(***************************************************************************)
EXTENDS Integers, Sequences, FiniteSets, TLC

(***************************************************************************)
(* Bounds of the model                                                     *)
(***************************************************************************)
\* resume texts are tried with lengths 5000 - MaxOver .. 5000 + MaxOver
MaxOver == 1
\* the wall clock (read by new Date()) runs from 1 up to MaxClock
MaxClock == 2
\* a further call starts, and a concurrent invocation writes, while the store
\* holds fewer than MaxDocs documents
MaxDocs == 1
\* courses are created while nextCourseId is at most MaxCourses
MaxCourses == 2
\* the catalog is listed at most MaxReads times between two writes
MaxReads == 2
\* the page's effect issues at most MaxRequests learning-resources requests
MaxRequests == 3

(***************************************************************************)
(* Program constants                                                       *)
(***************************************************************************)
\* geminiClient.js:43   resumeText.substring(0, 5000)
MaxResumeChars == 5000
\* api.js:6             const maxRetries = 5
maxRetries == 5

(***************************************************************************)
(* JavaScript values                                                       *)
(***************************************************************************)
Undefined == [t |-> "undefined"]
Null == [t |-> "null"]
Str(s) == [t |-> "string", v |-> s]
Num(n) == [t |-> "number", v |-> n]
Arr(s) == [t |-> "array", v |-> s]
Obj(f) == [t |-> "object", v |-> f]
Bool(b) == [t |-> "boolean", v |-> b]
EmptyFn == [k \in {} |-> Undefined]

\* ToBoolean: undefined, null, "" and 0 are falsy; arrays and objects are truthy
Truthy(x) ==
  CASE x.t = "undefined" -> FALSE
    [] x.t = "null" -> FALSE
    [] x.t = "string" -> Len(x.v) > 0
    [] x.t = "number" -> x.v # 0
    [] x.t = "boolean" -> x.v
    [] OTHER -> TRUE

\* x is null or undefined: reading a property of it throws a TypeError
Nullish(x) == x.t \in {"undefined", "null"}

\* x.k for a value that is not nullish: only objects carry named properties
Prop(x, k) == IF x.t = "object" /\ k \in DOMAIN x.v THEN x.v[k] ELSE Undefined

\* obj.k : undefined when the property is absent
Get(o, k) == IF k \in DOMAIN o THEN o[k] ELSE Undefined

\* { ...a, ...b } : the later properties win
Spread(a, b) ==
  [k \in DOMAIN a \cup DOMAIN b |-> IF k \in DOMAIN b THEN b[k] ELSE a[k]]

\* { ...x } of a parsed JSON value: own enumerable properties; a number, a
\* boolean or null contributes none, an array or a string its indices
OwnProps(x) ==
  CASE x.t = "object" -> x.v
    [] x.t = "array" -> [i \in {ToString(j - 1) : j \in 1..Len(x.v)} |->
                           x.v[CHOOSE j \in 1..Len(x.v) : ToString(j - 1) = i]]
    [] x.t = "string" -> [i \in {ToString(j - 1) : j \in 1..Len(x.v)} |->
                           Str(<<x.v[CHOOSE j \in 1..Len(x.v) : ToString(j - 1) = i]>>)]
    [] OTHER -> EmptyFn

Min(a, b) == IF a < b THEN a ELSE b

\* (faulty variant: one code unit too many)
Substring0_OffByOne(s, n) == SubSeq(s, 1, Min(Len(s), n + 1))

\* String.prototype.substring(0, n) on the code units of s
Substring0(s, n) == SubSeq(s, 1, Min(Len(s), n))

\* new Date().toISOString() at clock value n (one distinct string per instant)
Digit == <<"0", "1", "2", "3", "4", "5", "6", "7", "8", "9">>
toISOString(n) == Str(<<"T", Digit[(n % 10) + 1]>>)

\* new Error(m): an error with a message and no HTTP response attached
Error(m) == [message |-> Str(<<m>>), data |-> Undefined]
NoError == [message |-> Undefined, data |-> Undefined]

(***************************************************************************)
(* State                                                                   *)
(***************************************************************************)
VARIABLES
  apiKey,     \* backend: GEMINI_API_KEY is set (process.env, fixed at start)
  now,        \* the wall clock read by new Date()
  hpc,        \* /api/analyze handler: "idle", "awaiting" (axios.post), "done"
  req,        \* /api/analyze: the body of the request being handled
  outbound,   \* /api/analyze: payloads posted to the provider for this request
  reply,      \* /api/analyze: what axios.post settled with for this request
  resp        \* /api/analyze: the response sent, [status, body]

analyzeVars == <<apiKey, now, hpc, req, outbound, reply, resp>>

VARIABLES
  wargs,      \* analyzeResumeWithGemini: its arguments db, userId, resumeText, careerGoal
  wpc,        \* its position: "attempt", "fetching", "persisting", "sleeping",
              \* "returned", "thrown"
  attempt,    \* its loop counter
  fetches,    \* number of fetch("/api/analyze") calls it has made
  delays,     \* the setTimeout delays (ms) it has waited out or is waiting out
  werror,     \* the message of the error its catch block caught last
  wout,       \* the value it returned, or the message of the error it threw
  store       \* Firestore: the documents written, [path, id, data]

wrapperVars == <<wargs, wpc, attempt, fetches, delays, werror, wout, store>>

VARIABLES
  vertexCfg,  \* backend: which of projectId, location, dataStoreId, apiKey the
              \* VertexCourseSearch constructor received
  cpc,        \* /api/courses/external handler: "idle", "vertex", "discovering",
              \* "structuring", "done"
  creq,       \* its request body, [role, skills]
  ccalls,     \* the provider calls it has issued for this request, in order
  cvertex,    \* what vertexSearch.searchCourses settled with
  cdisc,      \* what the discovery axios.post settled with
  cstruct,    \* what the structuring axios.post settled with
  clocal,     \* its locals courses, sources, usedVertex, vertexResult, discovery
  cresp       \* the response sent, [status, body]

coursesVars ==
  <<vertexCfg, cpc, creq, ccalls, cvertex, cdisc, cstruct, clocal, cresp>>

VARIABLES
  upc,        \* /api/upload-resume handler: "idle", "extracting", "analysing", "done"
  ufile,      \* req.file as multer left it (Undefined when no file was attached)
  ugoal,      \* req.body.careerGoal
  ucalls,     \* the client operations the handler has called for this request,
              \* in order, each with whether it got as far as its axios.post
  uextract,   \* what the axios.post of extractTextFromFile settled with
  uanalysis,  \* what the axios.post of generateStructuredAnalysis settled with
  uresp,      \* the response sent, [status, body]
  uploads     \* the files present in UPLOAD_DIR

uploadVars == <<upc, ufile, ugoal, ucalls, uextract, uanalysis, uresp, uploads>>

VARIABLES
  courses,      \* backend: the in-memory course catalog, in insertion order
  nextCourseId, \* backend: the id the next created course gets
  kresp,        \* the response to the last catalog request, [status, body]
  created,      \* history: the ids handed out, in creation order
  deleted,      \* history: the ids of the courses deleted
  reads         \* history: GET /api/courses requests since the last write

catalogVars == <<courses, nextCourseId, kresp, created, deleted, reads>>

VARIABLES
  analysisData,      \* RecommendationsPage: the prop, [careerGoal, missingSkills]
  pending,           \* the fetchLearningResources calls not yet settled
  requested,         \* how many such calls the effect has made
  learning,          \* state: the data last set
  isFetchingCourses, \* state: the fetching indicator
  courseError        \* state: the error last set

pageVars == <<analysisData, pending, requested, learning, isFetchingCourses, courseError>>

\* the state of the parts a specification leaves alone
restVars == <<uploadVars, catalogVars, pageVars>>

(***************************************************************************)
(* Link sanitization (backend/server.js)                                   *)
(***************************************************************************)
Https == <<"h", "t", "t", "p", "s", ":", "/", "/">>
CourseraOrg == <<"c", "o", "u", "r", "s", "e", "r", "a", ".", "o", "r", "g">>
UdemyCom == <<"u", "d", "e", "m", "y", ".", "c", "o", "m">>
GrowGoogle == <<"g", "r", "o", "w", ".", "g", "o", "o", "g", "l", "e">>
GoogleCom == <<"g", "o", "o", "g", "l", "e", ".", "c", "o", "m">>
SkillbuilderAws ==
  <<"s", "k", "i", "l", "l", "b", "u", "i", "l", "d", "e", "r", ".", "a", "w", "s">>
AwsAmazonCom == <<"a", "w", "s", ".", "a", "m", "a", "z", "o", "n", ".", "c", "o", "m">>
EdxOrg == <<"e", "d", "x", ".", "o", "r", "g">>
LinkedinCom == <<"l", "i", "n", "k", "e", "d", "i", "n", ".", "c", "o", "m">>
KaggleCom == <<"k", "a", "g", "g", "l", "e", ".", "c", "o", "m">>
MlhIo == <<"m", "l", "h", ".", "i", "o">>
HacktheboxCom == <<"h", "a", "c", "k", "t", "h", "e", "b", "o", "x", ".", "c", "o", "m">>

ALLOWED_DOMAINS ==
  <<CourseraOrg, UdemyCom, GrowGoogle, GoogleCom, SkillbuilderAws, AwsAmazonCom,
    EdxOrg, LinkedinCom, KaggleCom, MlhIo, HacktheboxCom>>

\* String.prototype.startsWith / endsWith on code units
StartsWith(s, d) == Len(s) >= Len(d) /\ SubSeq(s, 1, Len(d)) = d
EndsWith(s, d) == Len(s) >= Len(d) /\ SubSeq(s, Len(s) - Len(d) + 1, Len(s)) = d

\* new URL(url).host for an absolute https URL "https://" host ["/" path]:
\* [ok, host]; anything else makes new URL throw
UrlHost(url) ==
  IF url.t # "string" \/ ~StartsWith(url.v, Https) THEN [ok |-> FALSE, host |-> <<>>]
  ELSE LET rest == SubSeq(url.v, Len(Https) + 1, Len(url.v))
           slashes == {i \in 1..Len(rest) : rest[i] = "/"}
           stop == IF slashes = {} THEN Len(rest) + 1
                   ELSE CHOOSE i \in slashes : \A j \in slashes : i <= j
       IN [ok |-> stop > 1, host |-> SubSeq(rest, 1, stop - 1)]

\* isAllowedDomain(url): some allowed domain is a suffix of the host
isAllowedDomain(url) ==
  /\ UrlHost(url).ok
  /\ \E i \in 1..Len(ALLOWED_DOMAINS) : EndsWith(UrlHost(url).host, ALLOWED_DOMAINS[i])

SourceAllowed(source) ==
  ~Nullish(source) /\ Truthy(Prop(source, "uri")) /\ isAllowedDomain(Prop(source, "uri"))

\* chooseLink(candidateLink, sources): the link itself when allowed, else the
\* uri of the first allowed source, else null
chooseLink(candidateLink, sources) ==
  IF Truthy(candidateLink) /\ isAllowedDomain(candidateLink) THEN candidateLink
  ELSE IF SelectSeq(sources, SourceAllowed) # <<>>
    THEN Prop(Head(SelectSeq(sources, SourceAllowed)), "uri")
  ELSE Null

(***************************************************************************)
(* The static catalog (backend/data/recommendations.js)                    *)
(***************************************************************************)
\* the module server.js requires; its entries are those of the inline copy the
\* earlier server kept in its /api/recommendations/details handler
Field(name, value) == [name |-> name, value |-> value]
\* an object literal from its properties
Object(fields) ==
  Obj([k \in {f.name : f \in fields} |-> (CHOOSE f \in fields : f.name = k).value])

RECOMMENDATIONS_DB ==
  [certifications |->
     <<Object({Field("name", Str(<<"Google IT Support Certification">>)),
               Field("cost", Str(<<"$49/month">>)),
               Field("length", Str(<<"3-6 months">>)),
               Field("link",
                     Str(Https \o GrowGoogle \o
                         <<"/", "c", "e", "r", "t", "i", "f", "i", "c", "a", "t", "e", "s">>))}),
       Object({Field("name", Str(<<"AWS Cloud Practitioner">>)),
               Field("cost", Str(<<"$100">>)),
               Field("length", Str(<<"1-2 months">>)),
               Field("link",
                     Str(Https \o AwsAmazonCom \o
                         <<"/", "c", "e", "r", "t", "i", "f", "i", "c", "a", "t", "i", "o", "n", "/">>))})>>,
   opportunities |->
     <<Object({Field("name", Str(<<"Major League Hacking Hackathons">>)),
               Field("link", Str(Https \o MlhIo)),
               Field("difficulty", Str(<<"Beginner-friendly">>)),
               Field("description", Str(<<"Hands-on real project exposure.">>))})>>]

Or(a, b) == IF Truthy(a) THEN a ELSE b

staticCourse(c) ==
  Object({Field("title", Prop(c, "name")),
          Field("provider", Or(Prop(c, "provider"), Str(<<"Static Catalog">>))),
          Field("link", Prop(c, "link")),
          Field("cost", Prop(c, "cost")),
          Field("duration", Prop(c, "length")),
          Field("level", Str(<<>>))})
staticOpportunity(o) ==
  Object({Field("name", Prop(o, "name")),
          Field("description", Prop(o, "description")),
          Field("link", Prop(o, "link")),
          Field("difficulty", Prop(o, "difficulty"))})

\* mapStaticRecommendationsToLearning()
mapStaticRecommendationsToLearning ==
  [courses |-> Arr([i \in 1..Len(RECOMMENDATIONS_DB.certifications) |->
                      staticCourse(RECOMMENDATIONS_DB.certifications[i])]),
   opportunities |-> Arr([i \in 1..Len(RECOMMENDATIONS_DB.opportunities) |->
                            staticOpportunity(RECOMMENDATIONS_DB.opportunities[i])])]

(***************************************************************************)
(* The AI provider (generateContent) as seen by axios.post                 *)
(***************************************************************************)
\* JSON documents the provider may return as candidates[0].content.parts[0].text
\* with the value JSON.parse gives for each; any other text is a SyntaxError
DocGood ==
  "{\"resumeScore\":72,\"missingSkills\":[\"SQL\"],\"summary\":\"ok\"}"
DocOutOfRange ==
  "{\"resumeScore\":150,\"missingSkills\":\"SQL\"}"
DocNegative ==
  "{\"resumeScore\":-1,\"missingSkills\":[]}"
DocOverride ==
  "{\"resumeScore\":0,\"missingSkills\":[],\"timestamp\":\"T0\",\"careerGoal\":\"X\",\"sources\":7}"
DocEmptyObject == "{}"
DocNumber == "5"
DocNull == "null"
DocGarbage == "Sure! Here is the analysis: {"

AnalysisDocs ==
  { [text |-> DocGood,
     value |-> Obj([k \in {"resumeScore", "missingSkills", "summary"} |->
                CASE k = "resumeScore" -> Num(72)
                  [] k = "missingSkills" -> Arr(<<Str(<<"S", "Q", "L">>)>>)
                  [] OTHER -> Str(<<"o", "k">>)])],
    [text |-> DocOutOfRange,
     value |-> Obj([k \in {"resumeScore", "missingSkills"} |->
                CASE k = "resumeScore" -> Num(150)
                  [] OTHER -> Str(<<"S", "Q", "L">>)])],
    [text |-> DocNegative,
     value |-> Obj([k \in {"resumeScore", "missingSkills"} |->
                CASE k = "resumeScore" -> Num(-1)
                  [] OTHER -> Arr(<<>>)])],
    [text |-> DocOverride,
     value |-> Obj([k \in {"resumeScore", "missingSkills", "timestamp",
                           "careerGoal", "sources"} |->
                CASE k = "resumeScore" -> Num(0)
                  [] k = "missingSkills" -> Arr(<<>>)
                  [] k = "timestamp" -> Str(<<"T", "0">>)
                  [] k = "careerGoal" -> Str(<<"X">>)
                  [] OTHER -> Num(7)])],
    [text |-> DocEmptyObject, value |-> Obj(EmptyFn)],
    [text |-> DocNumber, value |-> Num(5)],
    [text |-> DocNull, value |-> Null] }

\* documents the provider may return to the structuring prompt
LinkAllowed == Str(Https \o <<"w", "w", "w", ".">> \o CourseraOrg \o <<"/", "a">>)
LinkLookalike == Str(Https \o <<"e", "v", "i", "l">> \o CourseraOrg \o <<"/", "a">>)
LinkUntrusted ==
  Str(Https \o <<"e", "x", "a", "m", "p", "l", "e", ".", "n", "e", "t">> \o <<"/", "a">>)
LinkRelative == Str(CourseraOrg \o <<"/", "a">>)
Course(title, link) ==
  Object({Field("title", Str(<<title>>)), Field("provider", Str(<<"P">>)),
          Field("link", link)})
CourseNoLink == Object({Field("title", Str(<<"no link">>))})
Opportunity1 ==
  Object({Field("name", Str(<<"AI hackathon">>)), Field("link", LinkAllowed)})

DocMixed == "{\"courses\":[allowed,untrusted],\"opportunities\":[o1]}"
DocLookalike == "{\"courses\":[lookalike]}"
DocUnusable == "{\"courses\":[untrusted,nolink,relative]}"
DocNoCourses == "{\"opportunities\":[o1]}"
DocCoursesString == "{\"courses\":\"none\"}"
DocCoursesNull == "{\"courses\":[null]}"

LearningDocs ==
  { [text |-> DocMixed,
     value |-> Object({Field("courses", Arr(<<Course("allowed", LinkAllowed),
                                              Course("untrusted", LinkUntrusted)>>)),
                       Field("opportunities", Arr(<<Opportunity1>>))})],
    [text |-> DocLookalike,
     value |-> Object({Field("courses", Arr(<<Course("lookalike", LinkLookalike)>>))})],
    [text |-> DocUnusable,
     value |-> Object({Field("courses", Arr(<<Course("untrusted", LinkUntrusted),
                                              CourseNoLink,
                                              Course("relative", LinkRelative)>>))})],
    [text |-> DocNoCourses,
     value |-> Object({Field("opportunities", Arr(<<Opportunity1>>))})],
    [text |-> DocCoursesString,
     value |-> Object({Field("courses", Str(<<"none">>))})],
    [text |-> DocCoursesNull,
     value |-> Object({Field("courses", Arr(<<Null>>))})] }

JsonDocs == AnalysisDocs \cup LearningDocs

\* JSON.parse(text): [ok, value]
JSONparse(text) ==
  IF \E d \in JsonDocs : <<d.text>> = text.v
    THEN [ok |-> TRUE, value |-> (CHOOSE d \in JsonDocs : <<d.text>> = text.v).value]
    ELSE [ok |-> FALSE, value |-> Undefined]

\* groundingMetadata.groundingAttributions of candidates[0]
Uri1 == Str(<<"https://", "www.coursera.org", "/learn/sql">>)
Title1 == Str(<<"SQL course">>)
Web(uri, title) ==
  Obj([k \in {"uri", "title"} |-> IF k = "uri" THEN uri ELSE title])
Attributions ==
  { Undefined,
    Arr(<<>>),
    Arr(<<Web(Uri1, Title1), Web(Uri1, Undefined), Web(Undefined, Title1)>>) }

\* what axios.post(apiUrl, payload) settles with: a rejection (timeout / no
\* connection: message only; non-2xx: the response data too) or response.data
Outcome(kind, message, data, text, attributions) ==
  [kind |-> kind, message |-> message, data |-> data, text |-> text,
   attributions |-> attributions]
NoReply == Outcome("none", Undefined, Undefined, Undefined, Undefined)
TransportErrors ==
  { Outcome("error", Str(<<"timeout of 60000ms exceeded">>), Undefined,
            Undefined, Undefined),
    Outcome("error", Str(<<"Request failed with status code 429">>),
            Obj([k \in {"error"} |-> Str(<<"quota">>)]), Undefined, Undefined) }
ProviderTexts ==
  { Undefined, Str(<<>>) } \cup
  { Str(<<d>>) : d \in {DocGood, DocOutOfRange, DocNegative, DocOverride,
                        DocEmptyObject, DocNumber, DocNull, DocGarbage} }
\* what the discovery call and the structuring call may settle with
DiscoveryOutcomes ==
  TransportErrors \cup
  { Outcome("data", Undefined, Undefined, t, a) :
      t \in {Undefined, Str(<<"- SQL course (Coursera) ...">>)},
      a \in {Undefined,
             Arr(<<Web(LinkUntrusted, Title1), Web(LinkAllowed, Title1)>>),
             Arr(<<Web(LinkLookalike, Title1)>>),
             Arr(<<Web(LinkUntrusted, Title1)>>)} }
StructureOutcomes ==
  TransportErrors \cup
  { Outcome("data", Undefined, Undefined, t, Undefined) :
      t \in {Undefined} \cup
            {Str(<<d>>) : d \in {DocMixed, DocLookalike, DocUnusable, DocNoCourses,
                                 DocCoursesString, DocCoursesNull, DocNull,
                                 DocNumber, DocGarbage}} }
\* what vertexSearch's axios.post may settle with
VertexOutcome(kind, message, data, results) ==
  [kind |-> kind, message |-> message, data |-> data, results |-> results]
VertexOutcomes ==
  { VertexOutcome("error", Str(<<"timeout of 20000ms exceeded">>), Undefined, Undefined),
    VertexOutcome("error", Str(<<"Request failed with status code 403">>),
                  Obj([k \in {"error"} |-> Str(<<"denied">>)]), Undefined),
    VertexOutcome("data", Undefined, Undefined, Arr(<<>>)),
    VertexOutcome("data", Undefined, Undefined, Undefined),
    VertexOutcome("data", Undefined, Undefined,
      Arr(<<Object({Field("document",
                     Object({Field("structData",
                               Object({Field("title", Str(<<"V">>)),
                                       Field("url", LinkAllowed)}))}))}),
            Object({Field("document",
                     Object({Field("name", Str(<<"no url">>))}))})>>)) }

ProviderOutcomes ==
  TransportErrors \cup
  { Outcome("data", Undefined, Undefined, t, a) :
      t \in ProviderTexts, a \in Attributions }

(***************************************************************************)
(* GeminiClient (backend/services/geminiClient.js)                         *)
(***************************************************************************)
\* ensureConfigured(): throws when no API key is set
ensureConfigured(key) ==
  IF ~key THEN Error("GEMINI_API_KEY is not configured on the server.")
  ELSE NoError

HasBoth(source) == Truthy(source.v["uri"]) /\ Truthy(source.v["title"])

\* parseGroundingSources(result): the {uri, title} pairs that have both
parseGroundingSources(attributions) ==
  IF ~Truthy(attributions) THEN Arr(<<>>)
  ELSE Arr(SelectSeq(attributions.v, HasBoth))

\* generateStructuredAnalysis up to its await: the error thrown, or the
\* payload handed to axios.post
analysisRequest(resumeText, careerGoal, key) ==
  IF ~Truthy(resumeText) \/ ~Truthy(careerGoal)
    THEN [thrown |-> Error("resumeText and careerGoal are required for analysis."),
          payload |-> Undefined]
  ELSE IF ensureConfigured(key) # NoError
    THEN [thrown |-> ensureConfigured(key), payload |-> Undefined]
  ELSE IF resumeText.t # "string"
    THEN [thrown |-> Error("resumeText.substring is not a function"),
          payload |-> Undefined]
  ELSE [thrown |-> NoError,
        payload |-> [careerGoal |-> careerGoal,
                     resume |-> Substring0(resumeText.v, MaxResumeChars)]]

\* (faulty variant: the parsed output is spread last and wins)
analysisResult_ProviderWins(outcome, careerGoal, clock) ==
  IF outcome.kind = "error"
    THEN [thrown |-> [message |-> outcome.message, data |-> outcome.data],
          value |-> Undefined]
  ELSE IF ~Truthy(outcome.text)
    THEN [thrown |-> Error("Gemini response was empty or malformed."),
          value |-> Undefined]
  ELSE IF ~JSONparse(outcome.text).ok
    THEN [thrown |-> Error("Failed to parse Gemini JSON response."),
          value |-> Undefined]
  ELSE [thrown |-> NoError,
        value |-> Obj(Spread(
                    [k \in {"timestamp", "careerGoal", "sources"} |->
                       CASE k = "timestamp" -> toISOString(clock)
                         [] k = "careerGoal" -> careerGoal
                         [] OTHER -> parseGroundingSources(outcome.attributions)],
                    OwnProps(JSONparse(outcome.text).value)))]

\* generateStructuredAnalysis after its await: the error thrown, or the
\* object returned
analysisResult(outcome, careerGoal, clock) ==
  IF outcome.kind = "error"
    THEN [thrown |-> [message |-> outcome.message, data |-> outcome.data],
          value |-> Undefined]
  ELSE IF ~Truthy(outcome.text)
    THEN [thrown |-> Error("Gemini response was empty or malformed."),
          value |-> Undefined]
  ELSE IF ~JSONparse(outcome.text).ok
    THEN [thrown |-> Error("Failed to parse Gemini JSON response."),
          value |-> Undefined]
  ELSE [thrown |-> NoError,
        value |-> Obj(Spread(OwnProps(JSONparse(outcome.text).value),
                    [k \in {"timestamp", "careerGoal", "sources"} |->
                       CASE k = "timestamp" -> toISOString(clock)
                         [] k = "careerGoal" -> careerGoal
                         [] OTHER -> parseGroundingSources(outcome.attributions)]))]

(***************************************************************************)
(* POST /api/analyze (backend/server.js)                                   *)
(***************************************************************************)
NoResp == [status |-> 0, body |-> Undefined]
NoReq == [resumeText |-> Undefined, careerGoal |-> Undefined,
          timestamp |-> Undefined]

\* res.status(400).json({ error })
BadRequest(m) == [status |-> 400, body |-> Obj([k \in {"error"} |-> Str(<<m>>)])]

\* (faulty variant: the provider's response data is not passed on)
ServerError_MessageOnly(m, thrown) ==
  [status |-> 500,
   body |-> Obj([k \in {"error", "details"} |->
              IF k = "error" THEN Str(<<m>>) ELSE thrown.message])]

\* res.status(500).json({ error, details: error?.response?.data || error.message })
ServerError(m, thrown) ==
  [status |-> 500,
   body |-> Obj([k \in {"error", "details"} |->
              IF k = "error" THEN Str(<<m>>)
              ELSE IF Truthy(thrown.data) THEN thrown.data ELSE thrown.message])]

\* (faulty variant: the career goal is not checked)
analyzeInvalid_ResumeOnly(body) == ~Truthy(body.resumeText)

\* if (!resumeText || !careerGoal)
analyzeInvalid(body) == ~Truthy(body.resumeText) \/ ~Truthy(body.careerGoal)

\* the handler from the arrival of the request to its first await
AnalyzeReceive(body) ==
  /\ hpc \in {"idle", "done"}
  /\ req' = body
  /\ reply' = NoReply
  /\ LET r == analysisRequest(body.resumeText, body.careerGoal, apiKey)
     IN IF analyzeInvalid(body)
          THEN /\ resp' = BadRequest("resumeText and careerGoal are required.")
               /\ hpc' = "done"
               /\ outbound' = <<>>
        ELSE IF r.thrown # NoError
          THEN /\ resp' = ServerError("Failed to analyze resume with Gemini.", r.thrown)
               /\ hpc' = "done"
               /\ outbound' = <<>>
        ELSE /\ resp' = NoResp
             /\ hpc' = "awaiting"
             /\ outbound' = <<r.payload>>
  /\ UNCHANGED <<apiKey, now>>

\* (faulty variant: a failed provider call is tried once more)
AnalyzeProviderReply_Retry(outcome) ==
  /\ hpc = "awaiting"
  /\ reply' = outcome
  /\ LET r == analysisResult(outcome, req.careerGoal, now)
     IN IF r.thrown # NoError /\ Len(outbound) < 2
          THEN /\ outbound' = Append(outbound, outbound[1])
               /\ hpc' = "awaiting"
               /\ resp' = resp
        ELSE IF r.thrown # NoError
          THEN /\ resp' = ServerError("Failed to analyze resume with Gemini.", r.thrown)
               /\ hpc' = "done"
               /\ outbound' = outbound
        ELSE /\ resp' = [status |-> 200, body |-> r.value]
             /\ hpc' = "done"
             /\ outbound' = outbound
  /\ UNCHANGED <<apiKey, now, req>>

\* the handler from the settling of axios.post to the response
AnalyzeProviderReply(outcome) ==
  /\ hpc = "awaiting"
  /\ reply' = outcome
  /\ LET r == analysisResult(outcome, req.careerGoal, now)
     IN IF r.thrown # NoError
          THEN resp' = ServerError("Failed to analyze resume with Gemini.", r.thrown)
          ELSE resp' = [status |-> 200, body |-> r.value]
  /\ hpc' = "done"
  /\ UNCHANGED <<apiKey, now, req, outbound>>

\* time passes
Tick ==
  /\ now < MaxClock
  /\ now' = now + 1
  /\ UNCHANGED <<apiKey, hpc, req, outbound, reply, resp>>

(***************************************************************************)
(* SpecBackend: POST /api/analyze driven by any HTTP client                *)
(***************************************************************************)
\* a text of n code units: "a" up to offset 5000 and "z" beyond it
Text(n) == [i \in 1..n |-> IF i <= MaxResumeChars THEN "a" ELSE "z"]

ResumeTexts ==
  { Undefined, Null, Str(<<>>), Str(<<"a", "b">>), Num(7) } \cup
  { Str(Text(n)) : n \in (MaxResumeChars - MaxOver)..(MaxResumeChars + MaxOver) }
Goals == { Undefined, Str(<<>>), Str(<<"D", "S">>) }
Bodies ==
  [resumeText : ResumeTexts, careerGoal : Goals,
   timestamp : {Undefined, Str(<<"T", "0">>)}]

InitAnalyze ==
  /\ apiKey \in BOOLEAN
  /\ now = 1
  /\ hpc = "idle"
  /\ req = NoReq
  /\ outbound = <<>>
  /\ reply = NoReply
  /\ resp = NoResp

(***************************************************************************)
(* VertexCourseSearch (backend/services/vertexSearch.js)                   *)
(***************************************************************************)
\* new VertexCourseSearch({ apiKey, model, schema }) in server.js: the
\* constructor reads projectId, location, dataStoreId and apiKey
vertexConstructorArgs(keySet) ==
  [projectId |-> FALSE, location |-> FALSE, dataStoreId |-> FALSE, apiKey |-> keySet]

\* this.enabled = !!(projectId && location && dataStoreId && apiKey)
isEnabled(cfg) == cfg.projectId /\ cfg.location /\ cfg.dataStoreId /\ cfg.apiKey

\* one search result mapped to a course
vertexCourse(r) ==
  LET document == Prop(r, "document")
      d == Or(Prop(document, "derivedStructData"),
              Or(Prop(document, "structData"), Obj(EmptyFn)))
  IN Object({Field("title",
                   Or(Prop(d, "title"), Or(Prop(document, "name"), Str(<<"Course">>)))),
             Field("provider", Or(Prop(d, "provider"), Or(Prop(d, "source"), Str(<<>>)))),
             Field("link", Or(Prop(d, "url"), Or(Prop(d, "link"), Str(<<>>)))),
             Field("cost", Or(Prop(d, "cost"), Str(<<>>))),
             Field("duration", Or(Prop(d, "duration"), Str(<<>>))),
             Field("level", Or(Prop(d, "level"), Str(<<>>))),
             Field("description", Or(Prop(d, "description"), Str(<<>>)))})
HasLink(c) == Truthy(Prop(c, "link"))

\* searchCourses after its await: the error thrown, or the array returned
searchCourses(outcome) ==
  IF outcome.kind = "error"
    THEN [thrown |-> [message |-> outcome.message, data |-> outcome.data],
          value |-> Undefined]
  ELSE LET results == Or(outcome.results, Arr(<<>>)).v
       IN [thrown |-> NoError,
           value |-> Arr(SelectSeq([i \in 1..Len(results) |-> vertexCourse(results[i])],
                                   HasLink))]

(***************************************************************************)
(* GeminiClient: discovery and structuring                                 *)
(***************************************************************************)
\* discoverLearningResources after its await
discoveryResult(outcome) ==
  IF outcome.kind = "error"
    THEN [thrown |-> [message |-> outcome.message, data |-> outcome.data],
          value |-> Undefined]
  ELSE IF ~Truthy(outcome.text)
    THEN [thrown |-> Error("Gemini discovery response was empty or malformed."),
          value |-> Undefined]
  ELSE [thrown |-> NoError,
        value |-> [text |-> outcome.text,
                   sources |-> parseGroundingSources(outcome.attributions)]]

\* structureLearningResources after its await
structuredResult(outcome) ==
  IF outcome.kind = "error"
    THEN [thrown |-> [message |-> outcome.message, data |-> outcome.data],
          value |-> Undefined]
  ELSE IF ~Truthy(outcome.text)
    THEN [thrown |-> Error("Gemini structuring response was empty or malformed."),
          value |-> Undefined]
  ELSE IF ~JSONparse(outcome.text).ok
    THEN [thrown |-> Error("Failed to parse structured learning resources JSON."),
          value |-> Undefined]
  ELSE [thrown |-> NoError, value |-> JSONparse(outcome.text).value]

(***************************************************************************)
(* POST /api/courses/external (backend/server.js)                          *)
(***************************************************************************)
\* Array.prototype.join(', ') on an array of strings
RECURSIVE Join(_)
Join(seq) ==
  IF seq = <<>> THEN <<>>
  ELSE IF Len(seq) = 1 THEN seq[1].v
  ELSE seq[1].v \o <<",", " ">> \o Join(Tail(seq))

\* Array.isArray(skills) ? skills.join(', ') : (skills || '')
skillsTextOf(skills) ==
  IF skills.t = "array" THEN Str(Join(skills.v)) ELSE Or(skills, Str(<<>>))

NoLocals ==
  [courses |-> <<>>, sources |-> <<>>, usedVertex |-> FALSE,
   vertexResult |-> Null, discovery |-> [text |-> Undefined, sources |-> Arr(<<>>)]]

\* the sanitizer: (structured.courses || []).map(...).filter((c) => !!c.link);
\* thrown when a property of null is read or map is not a function
sanitizedCourses(structured, sources) ==
  LET withLink(c) ==
        Obj(Spread(OwnProps(c),
              [k \in {"link"} |-> chooseLink(Prop(c, "link"), sources)]))
      list == Or(Prop(structured, "courses"), Arr(<<>>))
  IN IF Nullish(structured) THEN [thrown |-> TRUE, courses |-> <<>>]
     ELSE IF list.t # "array" THEN [thrown |-> TRUE, courses |-> <<>>]
     ELSE IF \E i \in 1..Len(list.v) : Nullish(list.v[i])
       THEN [thrown |-> TRUE, courses |-> <<>>]
     ELSE [thrown |-> FALSE,
           courses |-> SelectSeq([i \in 1..Len(list.v) |-> withLink(list.v[i])],
                                 HasLink)]

\* (faulty variant: the catch block answers 500 as the other handlers do)
coursesCaught_500(body) ==
  [status |-> 500,
   body |-> Object({Field("error", Str(<<"Failed to fetch courses.">>))})]

\* the catch block: 200 with the static catalog
coursesCaught(body) ==
  [status |-> 200,
   body |-> Object({Field("role", body.role),
                    Field("skills", skillsTextOf(body.skills)),
                    Field("courses", mapStaticRecommendationsToLearning.courses),
                    Field("opportunities", mapStaticRecommendationsToLearning.opportunities),
                    Field("sources", Arr(<<>>)),
                    Field("fallback", Bool(TRUE)),
                    Field("message",
                          Str(<<"Live lookup failed; returning static catalog.">>))})]

\* (faulty variant: the opportunities are the static catalog's on every path)
coursesAnswer_StaticOpportunities(body, locals) ==
  [status |-> 200,
   body |-> Object({Field("role", body.role),
                    Field("skills", skillsTextOf(body.skills)),
                    Field("courses", Arr(locals.courses)),
                    Field("opportunities",
                          mapStaticRecommendationsToLearning.opportunities),
                    Field("sources", Arr(locals.sources)),
                    Field("usedVertex", Bool(locals.usedVertex)),
                    Field("fallback",
                          Bool(~locals.usedVertex /\ Len(locals.sources) = 0))})]

\* the end of the try block: opportunities and the 200 response
coursesAnswer(body, locals) ==
  [status |-> 200,
   body |-> Object({Field("role", body.role),
                    Field("skills", skillsTextOf(body.skills)),
                    Field("courses", Arr(locals.courses)),
                    Field("opportunities",
                          IF locals.usedVertex
                            THEN IF Nullish(locals.vertexResult) THEN Arr(<<>>)
                                 ELSE Or(Prop(locals.vertexResult, "opportunities"),
                                         Arr(<<>>))
                            ELSE mapStaticRecommendationsToLearning.opportunities),
                    Field("sources", Arr(locals.sources)),
                    Field("usedVertex", Bool(locals.usedVertex)),
                    Field("fallback",
                          Bool(~locals.usedVertex /\ Len(locals.sources) = 0))})]

\* if (!courses.length): discoverLearningResources up to its await, or the
\* answer when step 1 has supplied courses
coursesAfterVertex(locals) ==
  /\ clocal' = locals
  /\ IF Len(locals.courses) # 0
       THEN /\ cresp' = coursesAnswer(creq, locals)
            /\ cpc' = "done"
            /\ ccalls' = ccalls
     ELSE IF ~Truthy(creq.role) \/ ensureConfigured(apiKey) # NoError
       THEN /\ cresp' = coursesCaught(creq)
            /\ cpc' = "done"
            /\ ccalls' = ccalls
     ELSE /\ cresp' = NoResp
          /\ cpc' = "discovering"
          /\ ccalls' = Append(ccalls, "discover")

\* the handler from the arrival of the request to its first await
CoursesReceive(body) ==
  /\ cpc \in {"idle", "done"}
  /\ creq' = body
  /\ cvertex' = NoReply
  /\ cdisc' = NoReply
  /\ cstruct' = NoReply
  /\ IF ~Truthy(body.role)
       THEN /\ cresp' = BadRequest("role is required.")
            /\ cpc' = "done"
            /\ ccalls' = <<>>
            /\ clocal' = NoLocals
     ELSE IF isEnabled(vertexCfg)
       THEN /\ cresp' = NoResp
            /\ cpc' = "vertex"
            /\ ccalls' = <<"vertex">>
            /\ clocal' = NoLocals
     ELSE /\ clocal' = NoLocals
          /\ IF ensureConfigured(apiKey) # NoError
               THEN /\ cresp' = coursesCaught(body)
                    /\ cpc' = "done"
                    /\ ccalls' = <<>>
               ELSE /\ cresp' = NoResp
                    /\ cpc' = "discovering"
                    /\ ccalls' = <<"discover">>
  /\ UNCHANGED <<vertexCfg, analyzeVars, wrapperVars, restVars>>

\* (faulty variant: no try/catch around the searchCourses call)
CoursesVertexSettles_Uncaught(outcome) ==
  /\ cpc = "vertex"
  /\ cvertex' = outcome
  /\ LET r == searchCourses(outcome)
     IN IF r.thrown # NoError
          THEN /\ cresp' = coursesCaught(creq)
               /\ cpc' = "done"
               /\ UNCHANGED <<ccalls, clocal>>
          ELSE coursesAfterVertex(
                 [clocal EXCEPT !.vertexResult = r.value,
                                !.courses = Or(Prop(r.value, "courses"), Arr(<<>>)).v,
                                !.sources = Or(Prop(r.value, "sources"), Arr(<<>>)).v,
                                !.usedVertex = TRUE])
  /\ UNCHANGED <<vertexCfg, creq, cdisc, cstruct, analyzeVars, wrapperVars, restVars>>

\* vertexSearch.searchCourses settles
CoursesVertexSettles(outcome) ==
  /\ cpc = "vertex"
  /\ cvertex' = outcome
  /\ LET r == searchCourses(outcome)
     IN IF r.thrown # NoError
          THEN coursesAfterVertex(clocal)
          ELSE coursesAfterVertex(
                 [clocal EXCEPT !.vertexResult = r.value,
                                !.courses = Or(Prop(r.value, "courses"), Arr(<<>>)).v,
                                !.sources = Or(Prop(r.value, "sources"), Arr(<<>>)).v,
                                !.usedVertex = TRUE])
  /\ UNCHANGED <<vertexCfg, creq, cdisc, cstruct, analyzeVars, wrapperVars, restVars>>

\* the discovery axios.post settles; structureLearningResources runs up to its await
CoursesDiscoverySettles(outcome) ==
  /\ cpc = "discovering"
  /\ cdisc' = outcome
  /\ LET r == discoveryResult(outcome)
     IN IF r.thrown # NoError \/ ~Truthy(r.value.text)
             \/ ensureConfigured(apiKey) # NoError
          THEN /\ cresp' = coursesCaught(creq)
               /\ cpc' = "done"
               /\ UNCHANGED <<ccalls, clocal>>
          ELSE /\ clocal' = [clocal EXCEPT !.discovery = r.value]
               /\ cpc' = "structuring"
               /\ ccalls' = Append(ccalls, "structure")
               /\ cresp' = NoResp
  /\ UNCHANGED <<vertexCfg, creq, cvertex, cstruct, analyzeVars, wrapperVars, restVars>>

\* (faulty variant: an empty sanitized list is served as it is)
CoursesStructureSettles_NoStatic(outcome) ==
  /\ cpc = "structuring"
  /\ cstruct' = outcome
  /\ cpc' = "done"
  /\ LET r == structuredResult(outcome)
         clean == sanitizedCourses(r.value, clocal.discovery.sources.v)
         locals == [clocal EXCEPT
                      !.courses = clean.courses,
                      !.sources = Or(clocal.discovery.sources, Arr(<<>>)).v]
     IN IF r.thrown # NoError \/ clean.thrown
          THEN /\ cresp' = coursesCaught(creq)
               /\ clocal' = clocal
          ELSE /\ cresp' = coursesAnswer(creq, locals)
               /\ clocal' = locals
  /\ UNCHANGED <<vertexCfg, creq, ccalls, cvertex, cdisc, analyzeVars, wrapperVars, restVars>>

\* the structuring axios.post settles; the courses are sanitized and the
\* response is sent
CoursesStructureSettles(outcome) ==
  /\ cpc = "structuring"
  /\ cstruct' = outcome
  /\ cpc' = "done"
  /\ LET r == structuredResult(outcome)
         clean == sanitizedCourses(r.value, clocal.discovery.sources.v)
         locals == [clocal EXCEPT
                      !.courses = IF Len(clean.courses) # 0 THEN clean.courses
                                  ELSE mapStaticRecommendationsToLearning.courses.v,
                      !.sources = Or(clocal.discovery.sources, Arr(<<>>)).v]
     IN IF r.thrown # NoError \/ clean.thrown
          THEN /\ cresp' = coursesCaught(creq)
               /\ clocal' = clocal
          ELSE /\ cresp' = coursesAnswer(creq, locals)
               /\ clocal' = locals
  /\ UNCHANGED <<vertexCfg, creq, ccalls, cvertex, cdisc, analyzeVars, wrapperVars, restVars>>

(***************************************************************************)
(* analyzeResumeWithGemini (frontend/src/services/api.js)                  *)
(***************************************************************************)
\* JSON.stringify({ resumeText, careerGoal }): undefined properties are dropped
wrapperBody(args) ==
  [resumeText |-> args.resumeText, careerGoal |-> args.careerGoal,
   timestamp |-> Undefined]

\* `/artifacts/${appId}/users/${userId}/career_analyses`
analysesPath(userId) ==
  <<"/artifacts/", "appId", "/users/">> \o userId.v \o <<"/career_analyses">>

\* (faulty variant: one fixed document per user, doc(db, path, "latest"))
docRef_OnePerUser(path, docs) == [path |-> path, id |-> 1]

\* doc(collection(db, path)): a reference with a fresh auto-generated id
docRef(path, docs) == [path |-> path, id |-> Cardinality(docs) + 1]

\* setDoc(ref, data): the document at ref is created, or replaced if it exists
setDoc(docs, ref, data) ==
  {d \in docs : ~(d.path = ref.path /\ d.id = ref.id)}
    \cup {[path |-> ref.path, id |-> ref.id, data |-> data]}

\* (faulty variant: the last attempt backs off too)
catchError_DelayAfterLast(message) ==
  /\ werror' = message
  /\ IF attempt < maxRetries
       THEN /\ delays' = Append(delays, (2 ^ attempt) * 1000)
            /\ wpc' = "sleeping"
            /\ wout' = wout
       ELSE /\ wpc' = "thrown"
            /\ wout' = Str(<<"Failed to analyze resume after ", ToString(maxRetries),
                             " attempts: ">> \o message.v)
            /\ delays' = delays

\* the catch block: back off and go round the loop again, or give up
catchError(message) ==
  /\ werror' = message
  /\ IF attempt < maxRetries - 1
       THEN /\ delays' = Append(delays, (2 ^ attempt) * 1000)
            /\ wpc' = "sleeping"
            /\ wout' = wout
       ELSE /\ wpc' = "thrown"
            /\ wout' = Str(<<"Failed to analyze resume after ", ToString(maxRetries),
                             " attempts: ">> \o message.v)
            /\ delays' = delays

\* (faulty variant: the backoff promise is not awaited, the next fetch goes out
\* while the timer is still pending)
WrapperFetch_WhileSleeping ==
  /\ UNCHANGED <<coursesVars, restVars>>
  /\ wpc \in {"attempt", "sleeping"}
  /\ attempt < maxRetries
  /\ fetches' = fetches + 1
  /\ wpc' = "fetching"
  /\ AnalyzeReceive(wrapperBody(wargs))
  /\ UNCHANGED <<wargs, attempt, delays, werror, wout, store>>

\* fetch("/api/analyze", ...) is issued and reaches the backend
WrapperFetch ==
  /\ UNCHANGED <<coursesVars, restVars>>
  /\ wpc = "attempt"
  /\ attempt < maxRetries
  /\ fetches' = fetches + 1
  /\ wpc' = "fetching"
  /\ AnalyzeReceive(wrapperBody(wargs))
  /\ UNCHANGED <<wargs, attempt, delays, werror, wout, store>>

\* fetch rejects: the request cannot be sent
WrapperFetchRejects ==
  /\ UNCHANGED <<coursesVars, restVars>>
  /\ wpc = "attempt"
  /\ attempt < maxRetries
  /\ fetches' = fetches + 1
  /\ catchError(Str(<<"Failed to fetch">>))
  /\ UNCHANGED <<wargs, attempt, store>>
  /\ UNCHANGED analyzeVars

\* fetch rejects: the connection drops before the response arrives
WrapperResponseLost ==
  /\ UNCHANGED <<coursesVars, restVars>>
  /\ wpc = "fetching"
  /\ hpc = "done"
  /\ catchError(Str(<<"Failed to fetch">>))
  /\ UNCHANGED <<wargs, attempt, fetches, store>>
  /\ UNCHANGED analyzeVars

\* fetch resolves with the backend's response
WrapperResponse ==
  /\ UNCHANGED <<coursesVars, restVars>>
  /\ wpc = "fetching"
  /\ hpc = "done"
  /\ IF ~(resp.status \in 200..299)
       THEN /\ catchError(Str(<<"API call failed with status: ", ToString(resp.status)>>))
            /\ UNCHANGED <<wargs, attempt, fetches, store>>
     ELSE IF Truthy(wargs.db) /\ Truthy(wargs.userId)
       THEN /\ wpc' = "persisting"
            /\ UNCHANGED <<wargs, attempt, fetches, delays, werror, wout, store>>
     ELSE /\ wpc' = "returned"
          /\ wout' = resp.body
          /\ UNCHANGED <<wargs, attempt, fetches, delays, werror, store>>
  /\ UNCHANGED analyzeVars

\* (faulty variant: the write lands although setDoc rejects, and the attempt
\* is retried)
WrapperSetDoc_WrittenThenRetried(written) ==
  /\ UNCHANGED <<coursesVars, restVars>>
  /\ wpc = "persisting"
  /\ store' = setDoc(store, docRef(analysesPath(wargs.userId), store), resp.body)
  /\ IF written
       THEN /\ wpc' = "returned"
            /\ wout' = resp.body
            /\ UNCHANGED <<wargs, attempt, fetches, delays, werror>>
       ELSE /\ catchError(Str(<<"Missing or insufficient permissions.">>))
            /\ UNCHANGED <<wargs, attempt, fetches>>
  /\ UNCHANGED analyzeVars

\* await setDoc(docRef, analysisWithMetadata) settles
WrapperSetDoc(written) ==
  /\ UNCHANGED <<coursesVars, restVars>>
  /\ wpc = "persisting"
  /\ IF written
       THEN /\ store' = setDoc(store, docRef(analysesPath(wargs.userId), store),
                                 resp.body)
            /\ wpc' = "returned"
            /\ wout' = resp.body
            /\ UNCHANGED <<wargs, attempt, fetches, delays, werror>>
       ELSE /\ catchError(Str(<<"Missing or insufficient permissions.">>))
            /\ UNCHANGED <<wargs, attempt, fetches, store>>
  /\ UNCHANGED analyzeVars

\* the backoff timer fires: attempt++ and the loop goes round
WrapperWake ==
  /\ UNCHANGED <<coursesVars, restVars>>
  /\ wpc = "sleeping"
  /\ attempt' = attempt + 1
  /\ wpc' = "attempt"
  /\ UNCHANGED <<wargs, fetches, delays, werror, wout, store>>
  /\ UNCHANGED analyzeVars

vars == <<analyzeVars, wrapperVars, coursesVars, restVars>>

ClientPost ==
  (\E body \in Bodies : AnalyzeReceive(body)) /\ UNCHANGED <<wrapperVars, coursesVars, restVars>>
ProviderReplies ==
  (\E outcome \in ProviderOutcomes : AnalyzeProviderReply(outcome))
  /\ UNCHANGED <<wrapperVars, coursesVars, restVars>>
ClockTick == Tick /\ UNCHANGED <<wrapperVars, coursesVars, restVars>>
WrapperPersists == \E written \in BOOLEAN : WrapperSetDoc(written)

\* no learning-resources request has arrived
CoursesIdle ==
  /\ cpc = "idle"
  /\ creq = [role |-> Undefined, skills |-> Undefined]
  /\ ccalls = <<>>
  /\ cvertex = NoReply
  /\ cdisc = NoReply
  /\ cstruct = NoReply
  /\ clocal = NoLocals
  /\ cresp = NoResp

\* the wrapper has not been called
WrapperIdle ==
  /\ wargs = [db |-> Null, userId |-> Null, resumeText |-> Undefined,
              careerGoal |-> Undefined]
  /\ wpc = "returned"
  /\ attempt = 0
  /\ fetches = 0
  /\ delays = <<>>
  /\ werror = Undefined
  /\ wout = Undefined
  /\ store = {}

\* no upload request has arrived and UPLOAD_DIR holds no file
UploadIdle ==
  /\ upc = "idle"
  /\ ufile = Undefined
  /\ ugoal = Undefined
  /\ ucalls = <<>>
  /\ uextract = NoReply
  /\ uanalysis = NoReply
  /\ uresp = NoResp
  /\ uploads = {}

\* let courses = []; let nextCourseId = 1;
CatalogEmpty ==
  /\ courses = <<>>
  /\ nextCourseId = 1
  /\ kresp = NoResp
  /\ created = <<>>
  /\ deleted = {}
  /\ reads = 0

\* RecommendationsPage is not mounted
PageUnmounted ==
  /\ analysisData = Null
  /\ pending = {}
  /\ requested = 0
  /\ learning = Null
  /\ isFetchingCourses = FALSE
  /\ courseError = Null

RestIdle == UploadIdle /\ CatalogEmpty /\ PageUnmounted

\* VERTEX_API_KEY unset
VertexKeyUnset == vertexCfg = vertexConstructorArgs(FALSE)

InitBackend == InitAnalyze /\ WrapperIdle /\ CoursesIdle /\ VertexKeyUnset /\ RestIdle
NextBackend == ClientPost \/ ProviderReplies \/ ClockTick
SpecBackend == InitBackend /\ [][NextBackend]_vars

(***************************************************************************)
(* Claims about POST /api/analyze, checked under SpecBackend               *)
(***************************************************************************)
MissingOrEmpty(x) == x = Undefined \/ x = Str(<<>>)
NonEmptyString(x) == x.t = "string" /\ x.v # <<>>
ValidRequest == NonEmptyString(req.resumeText) /\ NonEmptyString(req.careerGoal)
Details == Get(resp.body.v, "details")

\* C3: a request whose resumeText or careerGoal is missing or empty is
\* answered 400 and nothing is posted to the provider, with or without an API
\* key.
C3_InvalidRequestIs400 ==
  (hpc # "idle" /\ (MissingOrEmpty(req.resumeText) \/ MissingOrEmpty(req.careerGoal)))
    => (hpc = "done" /\ resp.status = 400 /\ outbound = <<>>)

C3_Witness ==
  /\ hpc = "done"
  /\ apiKey
  /\ NonEmptyString(req.resumeText)
  /\ req.careerGoal = Undefined
  /\ resp.status = 400

\* C4 (as claimed): every request that passes validation posts exactly one
\* request to the provider.
C4_ExactlyOneProviderRequest ==
  (hpc = "done" /\ resp.status # 400) => Len(outbound) = 1

\* C4 (amended): a request that passes validation posts at most one request to
\* the provider: exactly one when the API key is configured and resumeText is a
\* string, none otherwise; a provider failure is never followed by a second
\* post.
C4_AtMostOneProviderRequest ==
  /\ Len(outbound) <= 1
  /\ hpc = "awaiting" => Len(outbound) = 1
  /\ (hpc = "done" /\ resp.status # 400) =>
       Len(outbound) = IF apiKey /\ req.resumeText.t = "string" THEN 1 ELSE 0

C4_Witness ==
  /\ hpc = "done"
  /\ reply.kind = "error"
  /\ resp.status = 500
  /\ Len(outbound) = 1

\* C5: for a valid request, a missing API key fails before anything is posted,
\* an absent or empty text fails as malformed, a text that is not JSON fails as
\* a parse error, a transport error fails too: each is answered 500 with the
\* underlying cause in details, never with a success body.
C5_ProviderFailureIs500 ==
  (hpc = "done" /\ ValidRequest) =>
    /\ ~apiKey =>
         /\ resp.status = 500
         /\ outbound = <<>>
         /\ Details = Str(<<"GEMINI_API_KEY is not configured on the server.">>)
    /\ (reply.kind = "data" /\ reply.text \in {Undefined, Str(<<>>)}) =>
         /\ resp.status = 500
         /\ Details = Str(<<"Gemini response was empty or malformed.">>)
    /\ (reply.kind = "data" /\ reply.text = Str(<<DocGarbage>>)) =>
         /\ resp.status = 500
         /\ Details = Str(<<"Failed to parse Gemini JSON response.">>)
    /\ reply.kind = "error" =>
         /\ resp.status = 500
         /\ Details = IF reply.data # Undefined THEN reply.data ELSE reply.message
    /\ resp.status = 500 =>
         /\ Get(resp.body.v, "error") = Str(<<"Failed to analyze resume with Gemini.">>)
         /\ Get(resp.body.v, "resumeScore") = Undefined

C5_Witness ==
  /\ hpc = "done"
  /\ ValidRequest
  /\ reply.kind = "error"
  /\ reply.data # Undefined
  /\ resp.status = 500

\* C6: when the handler answers 200, the result's careerGoal is the request's
\* and its timestamp is the time read at that moment, whatever timestamp the
\* request body carries and whatever timestamp or careerGoal the provider's
\* JSON carries.
C6_MetadataFromBackend ==
  [][(hpc = "awaiting" /\ hpc' = "done" /\ resp'.status = 200) =>
       /\ Get(resp'.body.v, "careerGoal") = req.careerGoal
       /\ Get(resp'.body.v, "timestamp") = toISOString(now)]_vars

C6_Witness ==
  /\ hpc = "done"
  /\ resp.status = 200
  /\ reply.text = Str(<<DocOverride>>)
  /\ req.timestamp = Str(<<"T", "0">>)

\* C7: the resume placed in the provider request is the first min(length, 5000)
\* code units of resumeText, and a text longer than 5000 is posted, not
\* rejected.
C7_ResumeTruncated ==
  /\ Len(outbound) > 0 =>
       LET sent == outbound[1].resume
           text == req.resumeText.v
       IN /\ Len(sent) = IF Len(text) < 5000 THEN Len(text) ELSE 5000
          /\ \A i \in 1..Len(sent) : sent[i] = text[i]
          /\ \A i \in 1..Len(sent) : i <= 5000
  /\ (hpc # "idle" /\ apiKey /\ ValidRequest /\ Len(req.resumeText.v) > 5000) =>
       /\ Len(outbound) = 1
       /\ resp.status # 400

C7_Witness ==
  /\ Len(outbound) = 1
  /\ Len(req.resumeText.v) = 5001
  /\ req.resumeText.v[5001] = "z"
  /\ Len(outbound[1].resume) = 5000

\* C8 (as claimed): every result answered 200 has a resumeScore within 0..100
\* and a missingSkills array.
C8_ScoreAndSkillsValid ==
  (hpc = "done" /\ resp.status = 200) =>
    /\ Get(resp.body.v, "resumeScore").t = "number"
    /\ Get(resp.body.v, "resumeScore").v \in 0..100
    /\ Get(resp.body.v, "missingSkills").t = "array"

(***************************************************************************)
(* SpecWrapper: one call of analyzeResumeWithGemini against the backend    *)
(***************************************************************************)
DbHandle == Obj([k \in {"type"} |-> Str(<<"firestore">>)])
WrapperArgs ==
  [db : {Null, DbHandle}, userId : {Null, Str(<<"u1">>)},
   resumeText : {Str(<<>>), Str(<<"a", "b">>)}, careerGoal : {Str(<<"D", "S">>)}]

InitWrapper ==
  /\ InitAnalyze
  /\ CoursesIdle
  /\ RestIdle
  /\ VertexKeyUnset
  /\ wargs \in WrapperArgs
  /\ wpc = "attempt"
  /\ attempt = 0
  /\ fetches = 0
  /\ delays = <<>>
  /\ werror = Undefined
  /\ wout = Undefined
  /\ store = {}

NextWrapper ==
  \/ WrapperFetch
  \/ WrapperFetchRejects
  \/ ProviderReplies
  \/ WrapperResponseLost
  \/ WrapperResponse
  \/ WrapperPersists
  \/ WrapperWake
  \/ ClockTick
SpecWrapper == InitWrapper /\ [][NextWrapper]_vars

(***************************************************************************)
(* SpecCourses: POST /api/courses/external driven by any HTTP client       *)
(***************************************************************************)
CourseBodies ==
  [role : {Undefined, Null, Str(<<>>), Str(<<"D", "S">>)},
   skills : {Undefined, Str(<<"S", "Q", "L">>),
             Arr(<<Str(<<"S", "Q", "L">>), Str(<<"M", "L">>)>>)}]

InitCourses ==
  /\ InitAnalyze
  /\ WrapperIdle
  /\ CoursesIdle
  /\ RestIdle
  /\ vertexCfg \in {vertexConstructorArgs(keySet) : keySet \in BOOLEAN}

CoursesPost == \E body \in CourseBodies : CoursesReceive(body)
CoursesDiscovers == \E outcome \in DiscoveryOutcomes : CoursesDiscoverySettles(outcome)
CoursesStructures == \E outcome \in StructureOutcomes : CoursesStructureSettles(outcome)
\* isEnabled(vertexCfg) is false for every configuration server.js constructs,
\* so no behaviour of the program reaches cpc = "vertex"
CoursesVertex == \E outcome \in VertexOutcomes : CoursesVertexSettles(outcome)

NextCourses == CoursesPost \/ CoursesDiscovers \/ CoursesStructures
SpecCourses == InitCourses /\ [][NextCourses]_vars

(***************************************************************************)
(* Claims about analyzeResumeWithGemini, checked under SpecWrapper         *)
(***************************************************************************)
ExhaustionPrefix == <<"Failed to analyze resume after ", "5", " attempts: ">>
SetDocFailed == werror = Str(<<"Missing or insufficient permissions.">>)

\* C1 (as claimed): the wrapper throws after exactly 5 attempts and backoff
\* delays of 1 s, 2 s, 4 s, 8 s and 16 s.
C1_FiveDelays ==
  wpc = "thrown" =>
    /\ fetches = 5
    /\ delays = <<1000, 2000, 4000, 8000, 16000>>

\* C1 (amended): the wrapper throws only after exactly 5 attempts, having
\* waited 1 s, 2 s, 4 s and 8 s between them and nothing after the fifth; the
\* message cites 5 attempts and the message of the last error caught.
C1_FiveAttemptsFourDelays ==
  /\ fetches <= 5
  /\ \A i \in 1..Len(delays) : i <= 4 /\ delays[i] = <<1000, 2000, 4000, 8000>>[i]
  /\ wpc = "thrown" =>
       /\ fetches = 5
       /\ delays = <<1000, 2000, 4000, 8000>>
       /\ wout = Str(ExhaustionPrefix \o werror.v)
  /\ wpc = "sleeping" => Len(delays) = fetches
  /\ wpc \in {"attempt", "sleeping", "thrown"} /\ fetches > 0 => werror # Undefined

C1_Witness ==
  /\ wpc = "thrown"
  /\ resp.status = 500
  /\ werror = Str(<<"API call failed with status: ", "500">>)

\* C2 (as claimed): a failure of setDoc after a success response does not
\* fail the call: the wrapper returns the result, makes no further attempt
\* and never throws the exhaustion error because of it.
C2_PersistenceBestEffort ==
  SetDocFailed => (wpc = "returned" /\ wout = resp.body)

(***************************************************************************)
(* Claims about POST /api/courses/external, checked under SpecCourses      *)
(***************************************************************************)
\* no role was sent: the property is absent, null or the empty string
RoleMissing(role) == role \in {Undefined, Null, Str(<<>>)}

\* the pipeline threw: no API key, a failed or empty discovery, a failed,
\* empty or unparsable structuring, or structured output the sanitizer cannot
\* read
PipelineThrew ==
  \/ ~apiKey
  \/ cdisc.kind = "error"
  \/ cdisc.kind = "data" /\ cdisc.text = Undefined
  \/ cstruct.kind = "error"
  \/ cstruct.kind = "data" /\
       cstruct.text \in {Undefined, Str(<<DocGarbage>>), Str(<<DocNull>>),
                         Str(<<DocCoursesString>>), Str(<<DocCoursesNull>>)}

\* C9: the handler answers 400 exactly when role is missing and 200 for every
\* request with a role, whatever the providers do; when the pipeline throws
\* the 200 response carries the static catalog.
C9_RoleGets200 ==
  cpc = "done" =>
    /\ cresp.status = 400 <=> RoleMissing(creq.role)
    /\ ~RoleMissing(creq.role) => cresp.status = 200
    /\ (cresp.status = 200 /\ PipelineThrew) =>
         /\ Prop(cresp.body, "courses") = mapStaticRecommendationsToLearning.courses
         /\ Prop(cresp.body, "opportunities") =
              mapStaticRecommendationsToLearning.opportunities

C9_Witness ==
  /\ cpc = "done"
  /\ apiKey
  /\ cstruct.text = Str(<<DocCoursesNull>>)
  /\ cresp.status = 200

\* C10 (as claimed): every 200 response carries role, skills, courses,
\* opportunities, sources, usedVertex and fallback.
C10_AllFieldsPresent ==
  (cpc = "done" /\ cresp.status = 200) =>
    \A k \in {"role", "skills", "courses", "opportunities", "sources",
              "usedVertex", "fallback"} : Prop(cresp.body, k) # Undefined

\* the body of a 200 response sent from the end of the try block
NormalPath == cpc = "done" /\ cresp.status = 200 /\ Prop(cresp.body, "message") = Undefined

\* the value structureLearningResources returned, once it has
StructuredValue == structuredResult(cstruct).value
StructuringReturned ==
  cpc = "done" /\ cstruct.kind = "data" /\ structuredResult(cstruct).thrown = NoError

\* the discover/structure pipeline ran to its end and no course survived the
\* sanitizer
ZeroSanitized ==
  /\ StructuringReturned
  /\ ~sanitizedCourses(StructuredValue, clocal.discovery.sources.v).thrown
  /\ sanitizedCourses(StructuredValue, clocal.discovery.sources.v).courses = <<>>

\* C11 (as claimed): with the secondary provider unconfigured and zero courses
\* left after sanitization, the response's courses and opportunities are the
\* static catalog's and fallback is true, with or without citations in the
\* discovery result.
C11_FallbackWhenZeroSanitized ==
  (~isEnabled(vertexCfg) /\ ZeroSanitized) =>
    /\ Prop(cresp.body, "courses") = mapStaticRecommendationsToLearning.courses
    /\ Prop(cresp.body, "opportunities") = mapStaticRecommendationsToLearning.opportunities
    /\ Prop(cresp.body, "fallback") = Bool(TRUE)

\* the host is an allow-listed domain or a subdomain of one
HostTrusted(url) ==
  /\ UrlHost(url).ok
  /\ \E i \in 1..Len(ALLOWED_DOMAINS) :
       \/ UrlHost(url).host = ALLOWED_DOMAINS[i]
       \/ EndsWith(UrlHost(url).host, <<".">> \o ALLOWED_DOMAINS[i])

\* the titles of the courses in the response
ResponseTitles ==
  {Prop(Prop(cresp.body, "courses").v[i], "title") :
     i \in 1..Len(Prop(cresp.body, "courses").v)}

\* C12 (as claimed): a structured course whose link host is not a trusted
\* domain, with no discovery citation on a trusted domain either, is not among
\* the courses of the response.
C12_UntrustedCourseDropped ==
  (StructuringReturned /\ NormalPath) =>
    LET list == Prop(StructuredValue, "courses")
    IN list.t = "array" =>
         \A i \in 1..Len(list.v) :
           ( /\ ~HostTrusted(Prop(list.v[i], "link"))
             /\ \A j \in 1..Len(clocal.discovery.sources.v) :
                  ~HostTrusted(Prop(clocal.discovery.sources.v[j], "uri")) )
           => Prop(list.v[i], "title") \notin ResponseTitles

(***************************************************************************)
(* SpecVertex: POST /api/courses/external with the Vertex client enabled   *)
(***************************************************************************)
\* a VertexCourseSearch whose constructor received projectId, location,
\* dataStoreId and apiKey.  server.js passes apiKey, model and schema only
\* (see vertexConstructorArgs), so SpecCourses never enters the Vertex step;
\* SpecVertex runs the handler with the client as the class enables it, next
\* to the configurations server.js constructs.
vertexEnabledArgs ==
  [projectId |-> TRUE, location |-> TRUE, dataStoreId |-> TRUE, apiKey |-> TRUE]

InitVertex ==
  /\ InitAnalyze
  /\ WrapperIdle
  /\ CoursesIdle
  /\ RestIdle
  /\ vertexCfg \in {vertexConstructorArgs(keySet) : keySet \in BOOLEAN}
                     \cup {vertexEnabledArgs}

NextVertex == CoursesPost \/ CoursesVertex \/ CoursesDiscovers \/ CoursesStructures
SpecVertex == InitVertex /\ [][NextVertex]_vars

(***************************************************************************)
(* Claims about the Vertex step, checked under SpecVertex                  *)
(***************************************************************************)
\* the course list searchCourses resolved with for this request
VertexReturned == cpc = "done" /\ cvertex.kind = "data"
VertexCourses == IF cvertex.kind = "data" THEN searchCourses(cvertex).value.v ELSE <<>>

StructuredOpportunities ==
  IF StructuringReturned /\ Prop(StructuredValue, "opportunities").t = "array"
    THEN {Prop(StructuredValue, "opportunities").v[i] :
            i \in 1..Len(Prop(StructuredValue, "opportunities").v)}
    ELSE {}
ResponseOpportunities ==
  {Prop(cresp.body, "opportunities").v[i] :
     i \in 1..Len(Prop(cresp.body, "opportunities").v)}

\* C14: in every 200 response the opportunities are the secondary provider's
\* own opportunities field (empty when it has none) when the response says
\* step 1 was used, and the static catalog's otherwise; no opportunity the
\* structuring step produced is among them.
C14_OpportunitiesSource ==
  (cpc = "done" /\ cresp.status = 200) =>
    /\ Prop(cresp.body, "opportunities") =
         IF Prop(cresp.body, "usedVertex") = Bool(TRUE)
           THEN Or(Prop(searchCourses(cvertex).value, "opportunities"), Arr(<<>>))
           ELSE mapStaticRecommendationsToLearning.opportunities
    /\ ResponseOpportunities \cap StructuredOpportunities = {}

C14_Witness ==
  /\ NormalPath
  /\ ~isEnabled(vertexCfg)
  /\ cstruct.text = Str(<<DocMixed>>)
  /\ Opportunity1 \in StructuredOpportunities
  /\ Prop(cresp.body, "opportunities") = mapStaticRecommendationsToLearning.opportunities

\* the values of the response body's properties
ResponseValues == {cresp.body.v[k] : k \in DOMAIN cresp.body.v}

\* C15: when the secondary client is not enabled or its call fails, the
\* handler answers 200, goes on to the discovery step whenever the AI provider
\* is configured, reports usedVertex false, takes its opportunities from the
\* static catalog, and nothing of the failure (message or response data) is in
\* the response.
C15_VertexFailureHidden ==
  (cpc = "done" /\ Truthy(creq.role) /\ (~isEnabled(vertexCfg) \/ cvertex.kind = "error")) =>
    /\ cresp.status = 200
    /\ Prop(cresp.body, "usedVertex") \in {Bool(FALSE), Undefined}
    /\ Prop(cresp.body, "opportunities") = mapStaticRecommendationsToLearning.opportunities
    /\ apiKey => (cdisc.kind # "none" /\ "discover" \in {ccalls[i] : i \in 1..Len(ccalls)})
    /\ Prop(cresp.body, "error") = Undefined
    /\ Prop(cresp.body, "details") = Undefined
    /\ cvertex.kind = "error" =>
         /\ cvertex.message \notin ResponseValues
         /\ cvertex.data \notin ResponseValues
         /\ Prop(cresp.body, "message") \in
              {Undefined, Str(<<"Live lookup failed; returning static catalog.">>)}

C15_Witness ==
  /\ NormalPath
  /\ cvertex.kind = "error"
  /\ cvertex.data # Undefined
  /\ ccalls = <<"vertex", "discover", "structure">>

\* the provider calls issued for this request
Called(step) == step \in {ccalls[i] : i \in 1..Len(ccalls)}

C17_CoursesNeverEmpty ==
  /\ Len(mapStaticRecommendationsToLearning.courses.v) > 0
  /\ (cpc = "done" /\ cresp.status = 200) =>
       /\ Prop(cresp.body, "courses").t = "array"
       /\ Len(Prop(cresp.body, "courses").v) > 0

C17_Witness ==
  /\ NormalPath
  /\ ZeroSanitized
  /\ cstruct.text = Str(<<DocUnusable>>)
  /\ Len(Prop(cresp.body, "courses").v) > 0

(***************************************************************************)
(* More claims about analyzeResumeWithGemini, checked under SpecWrapper    *)
(***************************************************************************)
\* C18: a fetch is issued only from the top of the loop, when every earlier
\* fetch has failed and every backoff delay scheduled so far has elapsed
\* (attempt counts the elapsed delays); while a fetch is outstanding it is the
\* only one.
C18_AttemptsSequential ==
  [][(fetches' = fetches + 1) =>
       /\ wpc = "attempt"
       /\ attempt = fetches
       /\ Len(delays) = fetches
       /\ fetches > 0 => werror # Undefined
       /\ wpc' = "fetching" => fetches' = attempt' + 1]_vars

C18_Witness ==
  /\ wpc = "fetching"
  /\ fetches = 2
  /\ attempt = 1
  /\ delays = <<1000>>

(***************************************************************************)
(* SpecStore: calls of analyzeResumeWithGemini one after another, with     *)
(* other invocations (same user or another) persisting in between          *)
(***************************************************************************)
\* the previous call has settled and the wrapper is called again; the locals
\* of the settled call and of its requests are gone
WrapperCalledAgain ==
  /\ wpc \in {"returned", "thrown"}
  /\ Cardinality(store) < MaxDocs
  /\ wargs' \in WrapperArgs
  /\ wpc' = "attempt"
  /\ attempt' = 0
  /\ fetches' = 0
  /\ delays' = <<>>
  /\ werror' = Undefined
  /\ wout' = Undefined
  /\ hpc' = "idle"
  /\ req' = NoReq
  /\ outbound' = <<>>
  /\ reply' = NoReply
  /\ resp' = NoResp
  /\ UNCHANGED <<store, apiKey, now, coursesVars, restVars>>

\* the setDoc of a concurrent invocation (this user's or another's) lands
OtherUsers == {Str(<<"u1">>), Str(<<"u2">>)}
OtherAnalysis == Object({Field("resumeScore", Num(72)), Field("careerGoal", Str(<<"P", "M">>))})
ConcurrentSetDoc ==
  /\ Cardinality(store) < MaxDocs
  /\ \E userId \in OtherUsers :
       store' = setDoc(store, docRef(analysesPath(userId), store), OtherAnalysis)
  /\ UNCHANGED <<wargs, wpc, attempt, fetches, delays, werror, wout>>
  /\ UNCHANGED <<analyzeVars, coursesVars, restVars>>

NextStore == NextWrapper \/ WrapperCalledAgain \/ ConcurrentSetDoc
SpecStore == InitWrapper /\ [][NextStore]_vars

(***************************************************************************)
(* Claims about the store, checked under SpecStore                         *)
(***************************************************************************)
\* C19: every step keeps every stored record as it is; a persisting step of
\* the wrapper adds exactly one record, under the collection of the userId it
\* was called with, holding the result received, at a reference no record had.
C19_RecordsImmutable ==
  [][/\ store \subseteq store'
     /\ \A d \in store' \ store :
          \A e \in store : ~(e.path = d.path /\ e.id = d.id)
     /\ (wpc = "persisting" /\ wpc' = "returned") =>
          /\ Cardinality(store') = Cardinality(store) + 1
          /\ \E d \in store' \ store :
               /\ d.path = analysesPath(wargs.userId)
               /\ d.data = resp.body]_vars

C19_Witness ==
  /\ wpc = "returned"
  /\ Cardinality(store) = 2
  /\ \E d, e \in store :
       /\ d.path = e.path
       /\ d.id # e.id
       /\ d.data = OtherAnalysis
       /\ e.data = wout
       /\ e.data # d.data

(***************************************************************************)
(* The analysis path as a state machine, checked under SpecWrapper         *)
(***************************************************************************)
\* where the analysis stands: no request out yet, POST /api/analyze in
\* flight, a 2xx response received and about to be persisted, the result
\* returned, or the attempt failed (and, after the last one, the call)
AnalysisState ==
  CASE wpc = "attempt" -> "Idle"
    [] wpc = "fetching" -> "AwaitingProvider"
    [] wpc = "persisting" -> "Validated"
    [] wpc = "returned" -> "Persisted"
    [] wpc \in {"sleeping", "thrown"} -> "Failed"

\* C20: an analysis moves Idle, AwaitingProvider, then Validated and Persisted,
\* or Failed. What every such run obeys: the step after Validated leads to
\* Persisted (never to Failed, never back to a new provider request), Failed
\* is entered from AwaitingProvider or from a request that could not be
\* sent, and the end states of the call (result returned, error thrown) are
\* never left.
C20_StateMachine ==
  [][/\ AnalysisState = "Validated" => AnalysisState' \in {"Validated", "Persisted"}
     /\ (AnalysisState # "Failed" /\ AnalysisState' = "Failed") =>
          AnalysisState \in {"Idle", "AwaitingProvider"}
     /\ AnalysisState = "Idle" => AnalysisState' \in {"Idle", "AwaitingProvider", "Failed"}
     /\ wpc \in {"returned", "thrown"} => wpc' = wpc]_vars

\* the failures the retry rule names: a non-success HTTP status, a transport error
StatusFailure == \E st \in {400, 500} :
  werror = Str(<<"API call failed with status: ", ToString(st)>>)
TransportFailure == werror = Str(<<"Failed to fetch">>)

\* C23: a non-success status and a transport error are retried alike, at most
\* 5 requests are sent, and no request is sent after a success: every request
\* after the first follows an attempt that ended in a non-success status or a
\* transport error, and a returned call sends nothing more.
C23_RetryUntilFirstSuccess ==
  [][/\ fetches' <= maxRetries
     /\ fetches' > fetches /\ fetches > 0 => StatusFailure \/ TransportFailure
     /\ (wpc = "fetching" /\ wpc' # "fetching" /\ ~(resp.status \in 200..299)) =>
          wpc' = IF attempt < maxRetries - 1 THEN "sleeping" ELSE "thrown"
     /\ wpc = "returned" => fetches' = fetches]_vars

\* the courses the sanitizer kept, which the handler then answers with
SanitizedKept ==
  IF StructuringReturned /\ NormalPath
       /\ ~sanitizedCourses(StructuredValue, clocal.discovery.sources.v).thrown
    THEN sanitizedCourses(StructuredValue, clocal.discovery.sources.v).courses
  ELSE <<>>

\* C24: every course that the discover/structure path contributes to a
\* response carries a link whose host is an allow-listed domain or a subdomain
\* of one, be the link the course's own or a citation's URI put in its place;
\* a host that merely ends in the characters of an allow-listed domain is not
\* accepted.
C24_LinkHostsTrusted ==
  SanitizedKept # <<>> =>
    /\ Prop(cresp.body, "courses") = Arr(SanitizedKept)
    /\ \A i \in 1..Len(SanitizedKept) : HostTrusted(Prop(SanitizedKept[i], "link"))

\* C25: one call of the wrapper sends at most 5 requests and writes at most one
\* record; a record is written only as the last thing before the call returns
\* that very result, so no request follows a write; and a call without db or
\* userId never persists, never fails on persistence and leaves the store empty.
C25_OneRecordPerCall ==
  /\ fetches <= maxRetries
  /\ Cardinality(store) <= 1
  /\ store # {} =>
       /\ wpc = "returned"
       /\ \A d \in store : d.path = analysesPath(wargs.userId) /\ d.data = wout
  /\ ~(Truthy(wargs.db) /\ Truthy(wargs.userId)) =>
       /\ store = {}
       /\ wpc # "persisting"
       /\ ~SetDocFailed
  /\ wpc = "returned" => wout = resp.body /\ resp.status \in 200..299

\* a record written on the fifth request, after setDoc had rejected before
C25_Witness ==
  /\ wpc = "returned"
  /\ Cardinality(store) = 1
  /\ fetches = maxRetries
  /\ SetDocFailed

(***************************************************************************)
(* Course management (backend/server.js): the in-memory catalog            *)
(***************************************************************************)
\* JSON.stringify of an object: properties holding undefined are left out
jsonObject(x) ==
  Obj([k \in {j \in DOMAIN x.v : x.v[j] # Undefined} |-> x.v[k]])
\* res.json(courses)
jsonCourses(list) == Arr([i \in 1..Len(list) |-> jsonObject(list[i])])

\* parseInt(req.params.id) for a parameter made of digits and letters: the
\* number its leading digits spell, NaN when it has none
NaN == [t |-> "NaN"]
DigitValue(c) == CHOOSE n \in 0..9 : Digit[n + 1] = c
IsDigit(c) == \E n \in 0..9 : Digit[n + 1] = c
RECURSIVE digitsValue(_, _)
digitsValue(s, acc) ==
  IF s = <<>> \/ ~IsDigit(Head(s)) THEN acc
  ELSE digitsValue(Tail(s), acc * 10 + DigitValue(Head(s)))
parseInt(s) ==
  IF s = <<>> \/ ~IsDigit(Head(s)) THEN NaN ELSE Num(digitsValue(s, 0))

\* courses.find((c) => c.id === id): the index of the first match, 0 for none
findIndex(list, id) ==
  IF \E i \in 1..Len(list) : Prop(list[i], "id") = id /\ id # NaN
    THEN CHOOSE i \in 1..Len(list) :
           /\ Prop(list[i], "id") = id
           /\ \A j \in 1..(i - 1) : Prop(list[j], "id") # id
  ELSE 0

KeepOthers(list, id) ==
  LET Other(c) == ~(Prop(c, "id") = id /\ id # NaN)
  IN SelectSeq(list, Other)

\* the request bodies of the catalog operations
CreateBody(title, category, level, description) ==
  Object({Field("title", title), Field("category", category), Field("level", level),
          Field("description", description), Field("createdBy", Str(<<"u1">>))})
CreateBodies ==
  { CreateBody(Str(<<"T1">>), Str(<<"C1">>), Str(<<"L1">>), Str(<<"D1">>)),
    CreateBody(Str(<<"T1">>), Str(<<"C1">>), Str(<<"L1">>), Undefined),
    CreateBody(Str(<<>>), Str(<<"C1">>), Str(<<"L1">>), Str(<<"D1">>)),
    CreateBody(Str(<<"T1">>), Undefined, Str(<<"L1">>), Undefined),
    CreateBody(Str(<<"T1">>), Str(<<"C1">>), Null, Undefined) }
UpdateBodies ==
  { Object({Field("description", Str(<<"D2">>))}),
    Object({Field("id", Num(9)), Field("createdBy", Str(<<"u2">>)),
            Field("createdAt", Str(<<"T", "0">>)), Field("title", Str(<<"T2">>)),
            Field("description", Str(<<>>))}) }
IdParams == {<<"1">>, <<"2">>, <<"3">>, <<"2", "x">>, <<"x">>}

\* app.post("/api/courses")
createCourse(body) ==
  /\ nextCourseId <= MaxCourses
  /\ IF ~Truthy(Prop(body, "title")) \/ ~Truthy(Prop(body, "category"))
          \/ ~Truthy(Prop(body, "level"))
       THEN /\ kresp' = BadRequest("Missing required fields")
            /\ UNCHANGED <<courses, nextCourseId, created>>
     ELSE LET newCourse ==
                Object({Field("id", Num(nextCourseId)),
                        Field("title", Prop(body, "title")),
                        Field("category", Prop(body, "category")),
                        Field("level", Prop(body, "level")),
                        Field("description", Prop(body, "description")),
                        Field("url", Prop(body, "url")),
                        Field("createdBy", Prop(body, "createdBy")),
                        Field("createdAt", toISOString(now))})
          IN /\ courses' = Append(courses, newCourse)
             /\ nextCourseId' = nextCourseId + 1
             /\ created' = Append(created, nextCourseId)
             /\ kresp' = [status |-> 200,
                          body |-> Object({Field("message", Str(<<"Course created successfully">>)),
                                           Field("course", jsonObject(newCourse))})]
  /\ reads' = 0
  /\ UNCHANGED deleted

\* (faulty variant: the listing hands out the newest course first by
\* reversing the array in place)
listCourses_ReverseInPlace ==
  /\ reads < MaxReads
  /\ reads' = reads + 1
  /\ courses' = [i \in 1..Len(courses) |-> courses[Len(courses) + 1 - i]]
  /\ kresp' = [status |-> 200, body |-> jsonCourses(courses')]
  /\ UNCHANGED <<nextCourseId, created, deleted>>

\* app.get("/api/courses")
listCourses ==
  /\ reads < MaxReads
  /\ reads' = reads + 1
  /\ kresp' = [status |-> 200, body |-> jsonCourses(courses)]
  /\ UNCHANGED <<courses, nextCourseId, created, deleted>>

NotFound == [status |-> 404, body |-> Object({Field("error", Str(<<"Course not found">>))})]

\* (faulty variant: the body is assigned onto the course, Object.assign)
assigned_WholeBody(course, body) ==
  Obj(Spread(course.v, body.v))

\* the course with the truthy ones of title, category, level, description
\* and url of the body assigned to it
assigned(course, body) ==
  Obj([k \in DOMAIN course.v |->
         IF k \in {"title", "category", "level", "description", "url"}
              /\ Truthy(Prop(body, k))
           THEN Prop(body, k) ELSE course.v[k]])

\* app.put("/api/courses/:id")
updateCourse(param, body) ==
  /\ LET id == parseInt(param)
         at == findIndex(courses, id)
     IN IF at = 0
          THEN /\ kresp' = NotFound
               /\ UNCHANGED courses
        ELSE /\ courses' = [courses EXCEPT ![at] = assigned(courses[at], body)]
             /\ kresp' = [status |-> 200,
                          body |-> Object({Field("message", Str(<<"Course updated successfully">>)),
                                           Field("course", jsonObject(courses'[at]))})]
  /\ reads' = 0
  /\ UNCHANGED <<nextCourseId, created, deleted>>

\* (faulty variant: deleting the newest course gives its id back)
deleteCourse_ReuseId(param) ==
  /\ LET id == parseInt(param)
     IN IF findIndex(courses, id) = 0
          THEN /\ kresp' = NotFound
               /\ UNCHANGED <<courses, deleted, nextCourseId>>
        ELSE /\ courses' = KeepOthers(courses, id)
             /\ deleted' = deleted \cup {id.v}
             /\ nextCourseId' = IF id.v = nextCourseId - 1 THEN id.v ELSE nextCourseId
             /\ kresp' = [status |-> 200,
                          body |-> Object({Field("message", Str(<<"Course deleted successfully">>)),
                                           Field("id", id)})]
  /\ reads' = 0
  /\ UNCHANGED created

\* app.delete("/api/courses/:id")
deleteCourse(param) ==
  /\ LET id == parseInt(param)
     IN IF findIndex(courses, id) = 0
          THEN /\ kresp' = NotFound
               /\ UNCHANGED <<courses, deleted>>
        ELSE /\ courses' = KeepOthers(courses, id)
             /\ deleted' = deleted \cup {id.v}
             /\ kresp' = [status |-> 200,
                          body |-> Object({Field("message", Str(<<"Course deleted successfully">>)),
                                           Field("id", id)})]
  /\ reads' = 0
  /\ UNCHANGED <<nextCourseId, created>>

(***************************************************************************)
(* SpecCatalog: the course-management routes driven by any HTTP client     *)
(***************************************************************************)
otherThanCatalog == <<analyzeVars, wrapperVars, coursesVars, uploadVars, pageVars>>
CatalogCreate ==
  (\E body \in CreateBodies : createCourse(body)) /\ UNCHANGED otherThanCatalog
CatalogList == listCourses /\ UNCHANGED otherThanCatalog
CatalogUpdate ==
  (\E param \in IdParams, body \in UpdateBodies : updateCourse(param, body))
  /\ UNCHANGED otherThanCatalog
CatalogDelete ==
  (\E param \in IdParams : deleteCourse(param)) /\ UNCHANGED otherThanCatalog
InitCatalog ==
  /\ InitAnalyze
  /\ WrapperIdle
  /\ CoursesIdle
  /\ VertexKeyUnset
  /\ UploadIdle
  /\ CatalogEmpty
  /\ PageUnmounted
NextCatalog == CatalogCreate \/ CatalogList \/ CatalogUpdate \/ CatalogDelete
SpecCatalog == InitCatalog /\ [][NextCatalog]_vars

(***************************************************************************)
(* Claims about the course catalog, checked under SpecCatalog              *)
(***************************************************************************)
\* C21: listing the catalog changes neither the catalog nor the next id, and
\* a listing that follows another with no create, update or delete in
\* between answers with the same content.
C21_ListIdempotent ==
  [][reads' > reads =>
       /\ courses' = courses
       /\ nextCourseId' = nextCourseId
       /\ kresp'.status = 200
       /\ reads > 0 => kresp' = kresp]_vars

\* the catalog listed twice in a row after a delete left one course of two
C21_Witness ==
  /\ reads = 2
  /\ Len(courses) = 1
  /\ deleted # {}
  /\ kresp.body = jsonCourses(courses)

\* the ids of the stored courses, in catalog order
StoredIds == [i \in 1..Len(courses) |-> Prop(courses[i], "id").v]

\* C26: the stored courses have distinct ids, in the catalog and among the
\* ids ever handed out an id is larger than every id handed out before it,
\* and no stored course carries the id of a deleted one.
C26_IdsUniqueIncreasing ==
  /\ \A i, j \in 1..Len(courses) : i < j => StoredIds[i] < StoredIds[j]
  /\ \A i, j \in 1..Len(created) : i < j => created[i] < created[j]
  /\ \A i \in 1..Len(courses) :
       /\ StoredIds[i] \notin deleted
       /\ \E j \in 1..Len(created) : created[j] = StoredIds[i]
       /\ StoredIds[i] < nextCourseId
  /\ \A d \in deleted : d < nextCourseId

\* a course created after the deletion of an earlier one
C26_Witness ==
  /\ deleted = {1}
  /\ Len(courses) = 1
  /\ StoredIds = <<2>>
  /\ created = <<1, 2>>

\* what the catalog request of a step was, read off the response it sent
Rejected == kresp'.status \in {400, 404}
Updated == Prop(kresp'.body, "message") = Str(<<"Course updated successfully">>)

\* C27: a catalog request answered 400 or 404 leaves the catalog, the next id
\* and the ids handed out as they were; a successful update keeps the next id
\* and the number of courses, changes one course only, and keeps that
\* course's id, createdBy and createdAt.
C27_RejectedLeavesState ==
  [][/\ Rejected =>
          /\ courses' = courses
          /\ nextCourseId' = nextCourseId
          /\ created' = created
          /\ deleted' = deleted
     /\ (Updated /\ reads' = 0) =>
          /\ nextCourseId' = nextCourseId
          /\ Len(courses') = Len(courses)
          /\ \E at \in 1..Len(courses) :
               /\ \A i \in 1..Len(courses) : i # at => courses'[i] = courses[i]
               /\ \A k \in {"id", "createdBy", "createdAt"} :
                    Prop(courses'[at], k) = Prop(courses[at], k)
               /\ Prop(kresp'.body, "course") = jsonObject(courses'[at])]_vars

\* the second of two courses updated by a body that also names id, createdBy
\* and createdAt
C27_Witness ==
  /\ Prop(kresp.body, "message") = Str(<<"Course updated successfully">>)
  /\ Len(courses) = 2
  /\ Prop(courses[2], "title") = Str(<<"T2">>)
  /\ Prop(courses[2], "id") = Num(2)
  /\ Prop(courses[2], "createdBy") = Str(<<"u1">>)
  /\ Prop(courses[1], "title") = Str(<<"T1">>)

(***************************************************************************)
(* POST /api/upload-resume (backend/server.js)                             *)
(***************************************************************************)
\* req.file as multer's disk storage leaves it, and what the extraction call
\* may settle with
UploadedFile == [path |-> <<"uploads/", "1-cv.pdf">>, mimetype |-> <<"application/pdf">>]
UploadGoals == {Undefined, Str(<<>>), Str(<<"D", "S">>)}
ExtractedText == Str(<<"a", "b">>)
ExtractOutcomes ==
  TransportErrors \cup
  { Outcome("data", Undefined, Undefined, t, Undefined) :
      t \in {Undefined, Str(<<>>), ExtractedText} }

\* utils/fileUtils.cleanupFile(filePath): the file is removed, as the inline
\* fs.unlinkSync(filePath) of the earlier upload handler did; nothing to do
\* without a path
cleanupFile(filePath, files) ==
  IF filePath = Undefined THEN files ELSE files \ {filePath}

\* (faulty variant: the text of the response is returned unchecked)
extractedText_Unchecked(outcome) ==
  IF outcome.kind = "error"
    THEN [thrown |-> [message |-> outcome.message, data |-> outcome.data],
          text |-> Undefined]
  ELSE [thrown |-> NoError, text |-> Or(outcome.text, Str(<<>>))]

\* extractTextFromFile from its axios.post on: the text, or the error thrown
extractedText(outcome) ==
  IF outcome.kind = "error"
    THEN [thrown |-> [message |-> outcome.message, data |-> outcome.data],
          text |-> Undefined]
  ELSE IF ~Truthy(outcome.text)
    THEN [thrown |-> Error("Failed to extract text from resume."), text |-> Undefined]
  ELSE [thrown |-> NoError, text |-> outcome.text]

ClientCall(op, posted) == [op |-> op, posted |-> posted]

\* res.json({ extractedText: text, characterCount: text.length, analysis })
uploadSuccess(text, analysis) ==
  [status |-> 200,
   body |-> Object({Field("extractedText", text),
                    Field("characterCount", Num(Len(text.v))),
                    Field("analysis", analysis)})]

\* the catch block
uploadFailure(thrown) == ServerError("Failed to process uploaded resume.", thrown)

\* (faulty variant: the file is removed on the success path only, as in the
\* earlier upload handler)
uploadSettled_CleanupOnSuccess(response, filePath, files) ==
  [response |-> response,
   files |-> IF response.status = 200 THEN cleanupFile(filePath, files) ELSE files]

\* how the handler ends: the response is sent from the try or the catch
\* block, and the finally block cleans up
uploadSettled(response, filePath, files) ==
  [response |-> response, files |-> cleanupFile(filePath, files)]

\* (faulty variant: a failed inline analysis is dropped and the text is
\* returned without it)
uploadAnalysed_BestEffort(outcome, text, careerGoal, clock) ==
  IF analysisResult(outcome, careerGoal, clock).thrown # NoError
    THEN uploadSuccess(text, Null)
  ELSE uploadSuccess(text, analysisResult(outcome, careerGoal, clock).value)

\* the response once generateStructuredAnalysis has settled
uploadAnalysed(outcome, text, careerGoal, clock) ==
  IF analysisResult(outcome, careerGoal, clock).thrown # NoError
    THEN uploadFailure(analysisResult(outcome, careerGoal, clock).thrown)
  ELSE uploadSuccess(text, analysisResult(outcome, careerGoal, clock).value)

\* the request arrives: multer stores the attached file, and the handler runs
\* up to its first await
UploadReceive(file, careerGoal) ==
  /\ upc \in {"idle", "done"}
  /\ ufile' = file
  /\ ugoal' = careerGoal
  /\ uextract' = NoReply
  /\ uanalysis' = NoReply
  /\ IF file = Undefined
       THEN /\ uresp' = uploadSettled(BadRequest("No resume file uploaded."),
                                      Undefined, uploads).response
            /\ uploads' = uploadSettled(BadRequest("No resume file uploaded."),
                                        Undefined, uploads).files
            /\ ucalls' = <<>>
            /\ upc' = "done"
     ELSE IF ensureConfigured(apiKey) # NoError
       THEN /\ uresp' = uploadSettled(uploadFailure(ensureConfigured(apiKey)),
                                      file.path, uploads \cup {file.path}).response
            /\ uploads' = uploadSettled(uploadFailure(ensureConfigured(apiKey)),
                                        file.path, uploads \cup {file.path}).files
            /\ ucalls' = <<ClientCall("extractTextFromFile", FALSE)>>
            /\ upc' = "done"
     ELSE /\ uresp' = NoResp
          /\ uploads' = uploads \cup {file.path}
          /\ ucalls' = <<ClientCall("extractTextFromFile", TRUE)>>
          /\ upc' = "extracting"

\* the axios.post of extractTextFromFile settles
UploadExtractSettles(outcome) ==
  /\ upc = "extracting"
  /\ uextract' = outcome
  /\ LET r == extractedText(outcome)
         a == analysisRequest(r.text, ugoal, apiKey)
     IN IF r.thrown # NoError
          THEN /\ uresp' = uploadSettled(uploadFailure(r.thrown), ufile.path, uploads).response
               /\ uploads' = uploadSettled(uploadFailure(r.thrown), ufile.path, uploads).files
               /\ upc' = "done"
               /\ UNCHANGED ucalls
        ELSE IF ~Truthy(ugoal)
          THEN /\ uresp' = uploadSettled(uploadSuccess(r.text, Null), ufile.path, uploads).response
               /\ uploads' = uploadSettled(uploadSuccess(r.text, Null), ufile.path, uploads).files
               /\ upc' = "done"
               /\ UNCHANGED ucalls
        ELSE IF a.thrown # NoError
          THEN /\ uresp' = uploadSettled(uploadFailure(a.thrown), ufile.path, uploads).response
               /\ uploads' = uploadSettled(uploadFailure(a.thrown), ufile.path, uploads).files
               /\ upc' = "done"
               /\ ucalls' = Append(ucalls, ClientCall("generateStructuredAnalysis", FALSE))
        ELSE /\ upc' = "analysing"
             /\ ucalls' = Append(ucalls, ClientCall("generateStructuredAnalysis", TRUE))
             /\ UNCHANGED <<uresp, uploads>>
  /\ UNCHANGED <<ufile, ugoal, uanalysis>>

\* the axios.post of generateStructuredAnalysis settles
UploadAnalysisSettles(outcome) ==
  /\ upc = "analysing"
  /\ uanalysis' = outcome
  /\ uresp' = uploadSettled(uploadAnalysed(outcome, extractedText(uextract).text, ugoal, now),
                            ufile.path, uploads).response
  /\ uploads' = uploadSettled(uploadAnalysed(outcome, extractedText(uextract).text, ugoal, now),
                              ufile.path, uploads).files
  /\ upc' = "done"
  /\ UNCHANGED <<ufile, ugoal, ucalls, uextract>>

(***************************************************************************)
(* SpecUpload: POST /api/upload-resume driven by any HTTP client           *)
(***************************************************************************)
otherThanUpload == <<wrapperVars, coursesVars, catalogVars, pageVars>>
idleAnalyze == <<apiKey, now, hpc, req, outbound, reply, resp>>
UploadPost ==
  (\E file \in {Undefined, UploadedFile}, careerGoal \in UploadGoals :
     UploadReceive(file, careerGoal))
  /\ UNCHANGED <<idleAnalyze, otherThanUpload>>
UploadExtracts ==
  (\E outcome \in ExtractOutcomes : UploadExtractSettles(outcome))
  /\ UNCHANGED <<idleAnalyze, otherThanUpload>>
UploadAnalyses ==
  (\E outcome \in ProviderOutcomes : UploadAnalysisSettles(outcome))
  /\ UNCHANGED <<idleAnalyze, otherThanUpload>>
UploadClock == Tick /\ UNCHANGED <<uploadVars, otherThanUpload>>

InitUpload ==
  /\ InitAnalyze
  /\ WrapperIdle
  /\ CoursesIdle
  /\ VertexKeyUnset
  /\ UploadIdle
  /\ CatalogEmpty
  /\ PageUnmounted
NextUpload == UploadPost \/ UploadExtracts \/ UploadAnalyses \/ UploadClock
SpecUpload == InitUpload /\ [][NextUpload]_vars

(***************************************************************************)
(* Claims about POST /api/upload-resume, checked under SpecUpload          *)
(***************************************************************************)
ExtractCalls ==
  Cardinality({i \in 1..Len(ucalls) : ucalls[i].op = "extractTextFromFile"})
ExtractPosts ==
  Cardinality({i \in 1..Len(ucalls) :
                 ucalls[i].op = "extractTextFromFile" /\ ucalls[i].posted})
ExtractionFailed ==
  \/ ucalls = <<ClientCall("extractTextFromFile", FALSE)>>
  \/ uextract.kind = "error"
  \/ uextract.kind = "data" /\ ~Truthy(uextract.text)

\* C22: without a file the answer is 400 and no client operation is called;
\* with a file extractTextFromFile is called once and posts to the provider at
\* most once; a failed or empty extraction is answered 500; a 200 answer
\* carries the non-empty text the provider returned and its length.
C22_UploadExtraction ==
  /\ (upc = "done" /\ ufile = Undefined) => uresp.status = 400 /\ ucalls = <<>>
  /\ (upc # "idle" /\ ufile # Undefined) => ExtractCalls = 1 /\ ExtractPosts <= 1
  /\ (upc = "done" /\ ufile # Undefined /\ ExtractionFailed) =>
       /\ uresp.status = 500
       /\ Prop(uresp.body, "extractedText") = Undefined
       /\ Len(ucalls) = 1
  /\ (upc = "done" /\ uresp.status = 200) =>
       /\ uextract.kind = "data"
       /\ Prop(uresp.body, "extractedText") = uextract.text
       /\ Truthy(Prop(uresp.body, "extractedText"))
       /\ Prop(uresp.body, "characterCount") = Num(Len(uextract.text.v))

\* the provider answered the extraction with an empty text
C22_Witness ==
  /\ upc = "done"
  /\ ufile = UploadedFile
  /\ uextract.kind = "data"
  /\ uextract.text = Str(<<>>)
  /\ uresp.status = 500
  /\ Prop(uresp.body, "details") = Str(<<"Failed to extract text from resume.">>)

AnalysisCalls ==
  Cardinality({i \in 1..Len(ucalls) : ucalls[i].op = "generateStructuredAnalysis"})

\* C29: when the text was extracted and a careerGoal was given, a failure of
\* the inline analysis is answered 500 with no extractedText in the body;
\* without a careerGoal generateStructuredAnalysis is not called and the 200
\* answer carries analysis: null.
C29_InlineAnalysisFailure ==
  /\ ( /\ upc = "done"
       /\ ~ExtractionFailed
       /\ ufile # Undefined
       /\ Truthy(ugoal)
       /\ analysisResult(uanalysis, ugoal, now).thrown # NoError ) =>
       /\ uresp.status = 500
       /\ Prop(uresp.body, "extractedText") = Undefined
       /\ Prop(uresp.body, "analysis") = Undefined
  /\ (upc # "idle" /\ ~Truthy(ugoal)) => AnalysisCalls = 0
  /\ (upc = "done" /\ ufile # Undefined /\ ~ExtractionFailed /\ ~Truthy(ugoal)) =>
       /\ uresp.status = 200
       /\ Prop(uresp.body, "analysis") = Null

\* the provider answered the inline analysis with text that is not JSON
C29_Witness ==
  /\ upc = "done"
  /\ ugoal = Str(<<"D", "S">>)
  /\ uextract.text = ExtractedText
  /\ uanalysis.kind = "data"
  /\ Truthy(uanalysis.text)
  /\ uresp.status = 500
  /\ Prop(uresp.body, "details") = Str(<<"Failed to parse Gemini JSON response.">>)

(***************************************************************************)
(* RecommendationsPage (frontend): the learning-resources effect           *)
(***************************************************************************)
\* the analysisData the page may be rendered with
PageData ==
  [careerGoal : {Str(<<>>), Str(<<"D", "S">>), Str(<<"P", "M">>)},
   missingSkills : {<<>>, <<"SQL">>}]

\* the effect's dependencies [careerGoal, JSON.stringify(missingSkills)]
effectDeps(data) ==
  IF data = Null THEN <<>> ELSE <<data.careerGoal, data.missingSkills>>

\* what fetchLearningResources(role, skills) settles with for a request:
\* the body of a 2xx answer, or an Error for any other answer or no answer
LearningFor(request) ==
  [request |-> request.n, role |-> request.role, skills |-> request.skills]
LookupErrors ==
  {Str(<<"Course lookup failed (", "500", "): ">>), Str(<<"Failed to fetch">>)}

\* the page is rendered with (new) analysisData; the effect runs on mount and
\* when a dependency changed
PageRenders(data) ==
  /\ data # analysisData
  /\ analysisData' = data
  /\ IF effectDeps(data) # effectDeps(analysisData) /\ Truthy(data.careerGoal)
       THEN /\ requested < MaxRequests
            /\ requested' = requested + 1
            /\ isFetchingCourses' = TRUE
            /\ pending' = pending \cup
                 {[n |-> requested + 1, role |-> data.careerGoal,
                   skills |-> data.missingSkills]}
     ELSE UNCHANGED <<requested, isFetchingCourses, pending>>
  /\ UNCHANGED <<learning, courseError>>

\* an outstanding fetchLearningResources call settles: .then or .catch, then
\* .finally
PageFetchSettles(request, ok, message) ==
  /\ request \in pending
  /\ pending' = pending \ {request}
  /\ IF ok
       THEN /\ learning' = LearningFor(request)
            /\ courseError' = Null
     ELSE /\ courseError' = message
          /\ UNCHANGED learning
  /\ isFetchingCourses' = FALSE
  /\ UNCHANGED <<analysisData, requested>>

(***************************************************************************)
(* SpecPage: the page re-rendered while its requests are in flight         *)
(***************************************************************************)
otherThanPage == <<analyzeVars, wrapperVars, coursesVars, uploadVars, catalogVars>>
PageRender ==
  (\E data \in PageData : PageRenders(data)) /\ UNCHANGED otherThanPage
PageFetchSettled ==
  (\E request \in pending, ok \in BOOLEAN, message \in LookupErrors :
     PageFetchSettles(request, ok, message))
  /\ UNCHANGED otherThanPage

InitPage ==
  /\ InitAnalyze
  /\ WrapperIdle
  /\ CoursesIdle
  /\ VertexKeyUnset
  /\ UploadIdle
  /\ CatalogEmpty
  /\ PageUnmounted
NextPage == PageRender \/ PageFetchSettled
SpecPage == InitPage /\ [][NextPage]_vars

(***************************************************************************)
(* Claims about the recommendations page, checked under SpecPage           *)
(***************************************************************************)
\* C30: a response to an older request never replaces the resources of a
\* newer one, the fetching indicator stays set while a request is
\* outstanding, and once every request has settled and the latest one
\* succeeded, the resources shown are those of the latest request.
C30_LatestRequestWins ==
  [][/\ (learning # Null /\ learning' # learning) => learning'.request > learning.request
     /\ pending' # {} => isFetchingCourses'
     /\ (pending' = {} /\ courseError' = Null /\ learning' # Null) =>
          learning'.request = requested']_vars

====
